---- MODULE Spec2Model ----
(***************************************************************************)
(* Verification model of the API tester's request pipeline:                *)
(*   - the security validator        (src/lib/security.ts)                 *)
(*   - the sliding-window RateLimiter (src/lib/security.ts)                *)
(*   - the request executor sendRequest of the ApiTester page component    *)
(*     together with the NetworkStatusIndicator it renders                 *)
(*     (src/app/layout.tsx, the variant that imports lib/security)         *)
(*                                                                         *)
(* Strings are sequences of chunks.  A chunk is a literal piece of text    *)
(* that the regular expressions of the code either match as a whole or do  *)
(* not match at all; ChunkLen gives its length in characters, so that      *)
(* string lengths, regular-expression offsets (lastIndex) and the size     *)
(* limits of the code keep their real values.                              *)
(***************************************************************************)
EXTENDS Integers, Sequences, FiniteSets, TLC

(***************************************************************************)
(* Bounds of the model                                                     *)
(***************************************************************************)
\* executions started in one behaviour of the page
MaxExec == 2
\* clock values of the page: 0, TickMs, ..., MaxTicks * TickMs
MaxTicks == 1
\* clock values of SpecLimiter: 0, TickMs, ..., LimMaxTicks * TickMs
LimMaxTicks == 2
\* cap of the RateLimiter that SpecLimiter exercises (its maxRequests argument)
LimMaxRequests == 2
\* cap of the page's RateLimiter; the page passes 30, the model scales the cap
\* down so that a burst that reaches it stays within MaxExec executions
PageMaxRequests == 1
\* executions of the page that may be sending at the same time
MaxInflight == 2
\* characters of a fenced text in the inputs of processTripleBackticks
MaxContentLen == 2
\* the cap of the history: MAX_REQUESTS is 50 in the code
HistMaxRequests == 2
\* calls of saveRequest on the history
HistMaxSaves == 3

\* windowMs of both limiters (the default of the class and the page's argument)
WindowMs == 60000
\* granularity of the clock in milliseconds: half a window
TickMs == WindowMs \div 2

(***************************************************************************)
(* Text                                                                    *)
(***************************************************************************)
ChunkLen(c) ==
    CASE c = "<2049 chars>"     -> 2049
      [] c = "<8193 chars>"     -> 8193
      [] c = "<10485761 chars>" -> 10485761
      [] c = "https:"           -> 6
      [] c = "http:"            -> 5
      [] c = "ftp:"             -> 4
      [] c = "file:"            -> 5
      [] c = "mailto:"          -> 7
      [] c = "javascript:"      -> 11
      [] c = "JAVASCRIPT:"      -> 11
      [] c = "vbscript:"        -> 9
      [] c = "data:text/html"   -> 14
      [] c = "onload="          -> 7
      [] c = "<script>x</script>" -> 18
      [] c = "//example.com"    -> 13
      [] c = "//0.0.0.0"        -> 9
      [] c = "//[::]"           -> 6
      [] c = "//127.0.0.1"      -> 11
      [] c = "example.com"      -> 11
      [] c = "/api?q="          -> 7
      [] c = "alert(1)"         -> 8
      [] c = "a@b.c"            -> 5
      [] c = " "                -> 1
      [] c = "<LF>"             -> 1
      [] c = "bar"              -> 3
      [] c = "application/json" -> 16
      [] c = "{\"a\":1}"        -> 7
      [] c = "{a:"              -> 3
      [] c = "password=hunter2" -> 16
      [] c = "hello"            -> 5
      [] c = "<FENCE>"          -> 3
      [] c = "{\"html\":"       -> 8
      [] c \in {"\\", "\"", "<CR>", "<TAB>", "<FF>", "n", "r", "t", "x", "}"} -> 1

RECURSIVE StrLen(_)
\* String.prototype.length
StrLen(s) == IF s = <<>> THEN 0 ELSE ChunkLen(Head(s)) + StrLen(Tail(s))

\* offset of the first character of chunk i of s (0-based, as in JavaScript)
ChunkStart(s, i) == StrLen(SubSeq(s, 1, i - 1))

\* String.prototype.toLowerCase, chunk by chunk
LowerChunk(c) == IF c = "JAVASCRIPT:" THEN "javascript:" ELSE c

toLowerCase(s) == [i \in 1..Len(s) |-> LowerChunk(s[i])]

RECURSIVE TrimLeft(_)
TrimLeft(s) == IF s # <<>> /\ Head(s) \in {" ", "<LF>"} THEN TrimLeft(Tail(s)) ELSE s

RECURSIVE TrimRight(_)
TrimRight(s) ==
    IF s # <<>> /\ s[Len(s)] \in {" ", "<LF>"} THEN TrimRight(SubSeq(s, 1, Len(s) - 1)) ELSE s

\* String.prototype.trim
trim(s) == TrimRight(TrimLeft(s))

(***************************************************************************)
(* Regular expressions with the g flag (INJECTION_PATTERNS)                *)
(***************************************************************************)
\* the five shared RegExp objects, in array order
PatternIds == 1..5

\* the chunks a pattern matches (all patterns carry the i flag)
PatternChunks(p) ==
    CASE p = 1 -> {"<script>x</script>"}
      [] p = 2 -> {"javascript:", "JAVASCRIPT:"}
      [] p = 3 -> {"onload="}
      [] p = 4 -> {"data:text/html"}
      [] p = 5 -> {"vbscript:"}

\* lastIndex of every pattern when the module has just been loaded
FreshPatterns == [p \in PatternIds |-> 0]

\* positions of the chunks of s that pattern p matches at or after offset from
MatchesFrom(p, s, from) ==
    {i \in 1..Len(s) : s[i] \in PatternChunks(p) /\ ChunkStart(s, i) >= from}

\* RegExp.prototype.test of a global pattern: the search starts at lastIndex;
\* a match moves lastIndex to the end of the match, a failure resets it to 0
RegExpTest(p, s, lastIndex) ==
    LET hits == MatchesFrom(p, s, lastIndex) IN
    IF lastIndex > StrLen(s) \/ hits = {}
    THEN [ok |-> FALSE, lastIndex |-> 0]
    ELSE LET i == CHOOSE k \in hits : \A j \in hits : k <= j
         IN [ok |-> TRUE, lastIndex |-> ChunkStart(s, i) + ChunkLen(s[i])]

\* the same text matched by a fresh pattern: what "s matches pattern p" means
Matches(p, s) == \E i \in 1..Len(s) : s[i] \in PatternChunks(p)

HasInjection(s) == \E p \in PatternIds : Matches(p, s)

\* the value of a set with one element
Only(S) == CHOOSE x \in S : TRUE

RECURSIVE ScanFrom(_, _, _)
\* for (const pattern of INJECTION_PATTERNS) { if (pattern.test(s)) { ...; break; } }
ScanFrom(p, s, re) ==
    IF p > 5 THEN [found |-> FALSE, re |-> re]
    ELSE Only({ IF t.ok
                THEN [found |-> TRUE, re |-> [re EXCEPT ![p] = t.lastIndex]]
                ELSE ScanFrom(p + 1, s, [re EXCEPT ![p] = t.lastIndex]) :
                t \in {RegExpTest(p, s, re[p])} })

ScanInjection(s, re) == ScanFrom(1, s, re)

(***************************************************************************)
(* validateUrl                                                             *)
(***************************************************************************)
DANGEROUS_PROTOCOLS == {"javascript:", "data:", "file:", "ftp:", "vbscript:"}

\* String.prototype.includes for the protocol names, on one chunk
ChunkIncludes(c, protocol) ==
    CASE protocol = "javascript:" -> c = "javascript:"
      [] protocol = "data:"       -> c = "data:text/html"
      [] protocol = "file:"       -> c = "file:"
      [] protocol = "ftp:"        -> c = "ftp:"
      [] protocol = "vbscript:"   -> c = "vbscript:"

includes(s, protocol) == \E i \in 1..Len(s) : ChunkIncludes(s[i], protocol)

maxUrlLength == 2048
maxHeaderCount == 50
maxHeaderValueLength == 8192
maxBodySize == 10485760
allowedProtocols == {"http:", "https:"}

\* scheme of a chunk that starts with one ("" when it does not)
SchemeOf(c) ==
    CASE c \in {"https:", "http:", "ftp:", "file:", "mailto:", "vbscript:"} -> c
      [] c \in {"javascript:", "JAVASCRIPT:"} -> "javascript:"
      [] c = "data:text/html" -> "data:"
      [] OTHER -> ""

\* hostname of an authority chunk
HostOf(c) ==
    CASE c = "//example.com" -> "example.com"
      [] c = "//0.0.0.0"     -> "0.0.0.0"
      [] c = "//[::]"        -> "[::]"
      [] c = "//127.0.0.1"   -> "127.0.0.1"
      [] OTHER               -> "other"

\* new URL(url): throws unless url is absolute; http, https and ftp need a host
ParseUrl(url) ==
    LET t == trim(url)
        scheme == IF t = <<>> THEN "" ELSE SchemeOf(Head(t))
    IN IF scheme = "" THEN [ok |-> FALSE, protocol |-> "", hostname |-> ""]
       ELSE IF scheme \in {"http:", "https:", "ftp:"} /\ Len(t) = 1
            THEN [ok |-> FALSE, protocol |-> "", hostname |-> ""]
       ELSE IF scheme \in {"http:", "https:", "ftp:", "file:"}
            THEN [ok |-> TRUE, protocol |-> scheme,
                  hostname |-> IF Len(t) = 1 THEN "" ELSE HostOf(t[2])]
       ELSE [ok |-> TRUE, protocol |-> scheme, hostname |-> ""]

\* localhost, 127.*, 192.168.*, 10.*, 172.16-31.*
IsPrivateHost(hostname) == hostname \in {"localhost", "127.0.0.1"}

IsWildcardHost(hostname) == hostname = "0.0.0.0" \/ hostname = "[::]"

\* a variant that compares the wildcard host against the whole URL text
UrlTryErrors_wildcardOnHref(url) ==
    LET parsedUrl == ParseUrl(url) IN
    IF ~parsedUrl.ok THEN << <<"Invalid URL format">> >>
    ELSE (IF parsedUrl.protocol \notin allowedProtocols
          THEN << <<"Protocol is not allowed", parsedUrl.protocol>> >> ELSE <<>>)
      \o (IF \E protocol \in DANGEROUS_PROTOCOLS : includes(toLowerCase(url), protocol)
          THEN << <<"URL contains potentially dangerous protocol">> >> ELSE <<>>)
      \o (IF url = <<"0.0.0.0">> \/ url = <<"[::]">>
          THEN << <<"Requests to wildcard addresses are not allowed">> >> ELSE <<>>)

\* the try block of validateUrl: the errors it pushes
UrlTryErrors(url) ==
    LET parsedUrl == ParseUrl(url) IN
    IF ~parsedUrl.ok THEN << <<"Invalid URL format">> >>
    ELSE (IF parsedUrl.protocol \notin allowedProtocols
          THEN << <<"Protocol is not allowed", parsedUrl.protocol>> >> ELSE <<>>)
      \o (IF \E protocol \in DANGEROUS_PROTOCOLS : includes(toLowerCase(url), protocol)
          THEN << <<"URL contains potentially dangerous protocol">> >> ELSE <<>>)
      \o (IF IsWildcardHost(parsedUrl.hostname)
          THEN << <<"Requests to wildcard addresses are not allowed">> >> ELSE <<>>)

UrlTryWarnings(url, production) ==
    LET parsedUrl == ParseUrl(url) IN
    IF parsedUrl.ok /\ production /\ IsPrivateHost(parsedUrl.hostname)
    THEN << <<"Requesting localhost/private IP from production environment">> >>
    ELSE <<>>

\* validateUrl(url) with the default configuration; re is the lastIndex of
\* the shared patterns before the call, the result carries it after the call
validateUrl(url, re, production) ==
    IF trim(url) = <<>>
    THEN [isValid |-> FALSE, errors |-> << <<"URL is required">> >>, warnings |-> <<>>, re |-> re]
    ELSE Only({
         LET e1 == IF StrLen(url) > maxUrlLength
                   THEN << <<"URL exceeds maximum length">> >> ELSE <<>>
             e3 == IF scan.found
                   THEN << <<"URL contains potentially dangerous content">> >> ELSE <<>>
         IN [isValid |-> Len(e1 \o e2 \o e3) = 0, errors |-> e1 \o e2 \o e3,
             warnings |-> UrlTryWarnings(url, production), re |-> scan.re] :
         e2 \in {UrlTryErrors(url)}, scan \in {ScanInjection(url, re)} })

(***************************************************************************)
(* validateHeaders                                                         *)
(***************************************************************************)
SENSITIVE_HEADERS ==
    {"authorization", "cookie", "set-cookie", "x-api-key", "x-auth-token",
     "access-token", "refresh-token"}

\* header.key.toLowerCase()
LowerKey(k) ==
    CASE k = "Content-Type"  -> "content-type"
      [] k = "X-Foo"         -> "x-foo"
      [] k = "Authorization" -> "authorization"
      [] OTHER               -> k

\* /^[a-zA-Z0-9\-_]+$/.test(header.key)
IsHeaderName(k) == k \in {"Content-Type", "X-Foo", "x-foo", "Authorization", "authorization"}

\* /[\x00-\x1f\x7f]/.test(header.value)
HasControlChar(s) == \E i \in 1..Len(s) : s[i] = "<LF>"

\* a variant that blocks on sensitive headers instead of warning
SensitiveFinding_blocks(key) ==
    IF LowerKey(key) \in SENSITIVE_HEADERS
    THEN [errors |-> << <<"Header contains sensitive information", key>> >>,
          warnings |-> <<>>]
    ELSE [errors |-> <<>>, warnings |-> <<>>]

\* the sensitive-header finding of one header: a warning
SensitiveFinding(key) ==
    IF LowerKey(key) \in SENSITIVE_HEADERS
    THEN [errors |-> <<>>,
          warnings |-> << <<"Header contains sensitive information", key>> >>]
    ELSE [errors |-> <<>>, warnings |-> <<>>]

\* the body of the loop for one header with a non-empty key and value
HeaderFindings(header, re) ==
    Only({
    LET e1 == IF ~IsHeaderName(header.key)
              THEN << <<"Invalid header name", header.key>> >> ELSE <<>>
        e2 == IF StrLen(header.value) > maxHeaderValueLength
              THEN << <<"Header value exceeds maximum length", header.key>> >> ELSE <<>>
        e3 == IF scan.found
              THEN << <<"Header contains potentially dangerous content", header.key>> >>
              ELSE <<>>
        e4 == IF HasControlChar(header.value)
              THEN << <<"Header contains invalid control characters", header.key>> >>
              ELSE <<>>
    IN [errors |-> e1 \o e2 \o s1.errors \o e3 \o e4, warnings |-> s1.warnings,
        re |-> scan.re] :
    s1 \in {SensitiveFinding(header.key)}, scan \in {ScanInjection(header.value, re)} })

RECURSIVE HeaderLoop(_, _, _)
\* for (const header of headers) { ... }, from header i on; found holds the
\* errors and warnings pushed so far and the lastIndex of the patterns
HeaderLoop(headers, i, found) ==
    IF i > Len(headers) THEN found
    ELSE IF headers[i].key = "" \/ headers[i].value = <<>>
         THEN HeaderLoop(headers, i + 1, found)
         ELSE Only({ HeaderLoop(headers, i + 1,
                                [errors |-> found.errors \o f.errors,
                                 warnings |-> found.warnings \o f.warnings,
                                 re |-> f.re]) :
                     f \in {HeaderFindings(headers[i], found.re)} })

\* headers.map(h => h.key.toLowerCase()).filter(Boolean) has a repeated name
HasDuplicateHeaders(headers) ==
    \E i, j \in 1..Len(headers) :
        /\ i < j
        /\ headers[i].key # ""
        /\ LowerKey(headers[i].key) = LowerKey(headers[j].key)

validateHeaders(headers, re) ==
    Only({
    LET w2 == IF HasDuplicateHeaders(headers)
              THEN << <<"Duplicate headers detected">> >> ELSE <<>>
    IN [isValid |-> Len(loop.errors) = 0, errors |-> loop.errors,
        warnings |-> loop.warnings \o w2, re |-> loop.re] :
    loop \in {HeaderLoop(headers, 1,
                         [errors |-> IF Len(headers) > maxHeaderCount
                                     THEN << <<"Too many headers">> >> ELSE <<>>,
                          warnings |-> <<>>, re |-> re])} })

(***************************************************************************)
(* validateBody                                                            *)
(***************************************************************************)
\* the character a JSON escape sequence \e stands for
JsonEscapes ==
    [e \in {"\\", "\"", "n", "r", "t"} |->
        CASE e = "\\" -> "\\" [] e = "\"" -> "\"" [] e = "n" -> "<LF>"
          [] e = "r" -> "<CR>" [] e = "t" -> "<TAB>"]

RECURSIVE JsonUnescape(_)
\* JSON.parse on the inside of a string literal: an unescaped quote or
\* control character, and a backslash without an escape letter, are errors
JsonUnescape(t) ==
    IF t = <<>> THEN [ok |-> TRUE, value |-> <<>>]
    ELSE IF Head(t) = "\\"
    THEN IF Len(t) >= 2 /\ t[2] \in DOMAIN JsonEscapes
         THEN Only({ [ok |-> r.ok,
                      value |-> IF r.ok THEN <<JsonEscapes[t[2]]>> \o r.value ELSE <<>>] :
                     r \in {JsonUnescape(SubSeq(t, 3, Len(t)))} })
         ELSE [ok |-> FALSE, value |-> <<>>]
    ELSE IF Head(t) \in {"\"", "<LF>", "<CR>", "<TAB>", "<FF>"}
    THEN [ok |-> FALSE, value |-> <<>>]
    ELSE Only({ [ok |-> r.ok, value |-> IF r.ok THEN <<Head(t)>> \o r.value ELSE <<>>] :
                r \in {JsonUnescape(Tail(t))} })

\* JSON.parse of a text that is to be one string literal
JsonParseString(lit) ==
    IF Len(lit) >= 2 /\ lit[1] = "\"" /\ lit[Len(lit)] = "\""
    THEN JsonUnescape(SubSeq(lit, 2, Len(lit) - 1))
    ELSE [ok |-> FALSE, value |-> <<>>]

\* trimmedBody.startsWith('{') || trimmedBody.startsWith('[')
LooksLikeJson(s) == s # <<>> /\ Head(s) \in {"{\"a\":1}", "{a:", "{\"html\":"}

\* JSON.parse(trimmedBody) returns: the text is the object {"a":1}, or an
\* object whose one member "html" is a string literal
JsonParses(s) ==
    \/ s = <<"{\"a\":1}">>
    \/ /\ Len(s) >= 3
       /\ s[1] = "{\"html\":"
       /\ s[Len(s)] = "}"
       /\ JsonParseString(SubSeq(s, 2, Len(s) - 1)).ok

\* one of the secretPatterns matches (they are created anew by every call)
HasSecret(s) == \E i \in 1..Len(s) : s[i] = "password=hunter2"

validateBody(body, re) ==
    IF trim(body) = <<>>
    THEN [isValid |-> TRUE, errors |-> <<>>, warnings |-> <<>>, re |-> re]
    ELSE Only({
         LET e1 == IF StrLen(body) > maxBodySize
                   THEN << <<"Request body exceeds maximum size">> >> ELSE <<>>
             e2 == IF scan.found
                   THEN << <<"Request body contains potentially dangerous content">> >>
                   ELSE <<>>
             w1 == IF LooksLikeJson(trim(body)) /\ ~JsonParses(trim(body))
                   THEN << <<"Request body appears to be JSON but is not valid JSON format">> >>
                   ELSE <<>>
             w2 == IF HasSecret(body)
                   THEN << <<"Request body may contain sensitive information">> >>
                   ELSE <<>>
         IN [isValid |-> Len(e1 \o e2) = 0, errors |-> e1 \o e2,
             warnings |-> w1 \o w2, re |-> scan.re] :
         scan \in {ScanInjection(body, re)} })

(***************************************************************************)
(* validateRequest                                                         *)
(***************************************************************************)
\* method.toUpperCase()
toUpperCase(m) ==
    CASE m = "get" -> "GET" [] m = "post" -> "POST" [] OTHER -> m

allowedMethods == {"GET", "POST", "PUT", "PATCH", "DELETE", "HEAD", "OPTIONS"}

BodyMethods == {"POST", "PUT", "PATCH"}

\* the part of validateRequest after validateUrl and validateHeaders
ValidateRequestBody(method, body, urlValidation, headerValidation) ==
    Only({
    LET em == IF toUpperCase(method) \notin allowedMethods
              THEN << <<"HTTP method is not supported", method>> >> ELSE <<>>
        hasBody == toUpperCase(method) \in BodyMethods
        wb == IF ~hasBody /\ trim(body) # <<>>
              THEN << <<"requests typically should not have a request body", method>> >>
              ELSE <<>>
    IN [isValid |-> Len(urlValidation.errors \o em \o headerValidation.errors
                          \o bodyValidation.errors) = 0,
        errors |-> urlValidation.errors \o em \o headerValidation.errors
                     \o bodyValidation.errors,
        warnings |-> urlValidation.warnings \o headerValidation.warnings
                       \o bodyValidation.warnings \o wb,
        re |-> bodyValidation.re] :
    bodyValidation \in {IF toUpperCase(method) \in BodyMethods
                        THEN validateBody(body, headerValidation.re)
                        ELSE [isValid |-> TRUE, errors |-> <<>>, warnings |-> <<>>,
                              re |-> headerValidation.re]} })

validateRequest(url, method, headers, body, re, production) ==
    Only({ Only({ ValidateRequestBody(method, body, urlValidation, headerValidation) :
                  headerValidation \in {validateHeaders(headers, urlValidation.re)} }) :
           urlValidation \in {validateUrl(url, re, production)} })

(***************************************************************************)
(* RateLimiter                                                             *)
(***************************************************************************)
\* identities the limiter is asked about; the page uses the first one only
LimiterIds == {"api-tester-client", "other-client"}

clientId == "api-tester-client"

\* new RateLimiter(maxRequests, windowMs): no request recorded
NewRateLimiter(maxRequests, windowMs) ==
    [maxRequests |-> maxRequests, windowMs |-> windowMs,
     requests |-> [id \in LimiterIds |-> <<>>]]

\* requests.filter(time => now - time < this.windowMs)
ValidRequests(L, identifier, now) ==
    SelectSeq(L.requests[identifier], LAMBDA time : now - time < L.windowMs)

\* a variant that records the call before it compares with the cap
isAllowed_recordsFirst(L, identifier, now) ==
    LET validRequests == Append(ValidRequests(L, identifier, now), now) IN
    [ret |-> Len(validRequests) <= L.maxRequests,
     requests |-> [L.requests EXCEPT ![identifier] = validRequests]]

\* a variant that compares with > instead of >=
isAllowed_offByOne(L, identifier, now) ==
    LET validRequests == ValidRequests(L, identifier, now) IN
    IF Len(validRequests) > L.maxRequests
    THEN [ret |-> FALSE, requests |-> L.requests]
    ELSE [ret |-> TRUE,
          requests |-> [L.requests EXCEPT ![identifier] = Append(validRequests, now)]]

\* a variant that appends to the stored list without dropping what has left
\* the window
isAllowed_keepsOld(L, identifier, now) ==
    LET validRequests == ValidRequests(L, identifier, now) IN
    IF Len(validRequests) >= L.maxRequests
    THEN [ret |-> FALSE, requests |-> L.requests]
    ELSE [ret |-> TRUE,
          requests |-> [L.requests EXCEPT ![identifier] = Append(@, now)]]

\* isAllowed(identifier): its return value and the map of recorded timestamps after it
isAllowed(L, identifier, now) ==
    LET validRequests == ValidRequests(L, identifier, now) IN
    IF Len(validRequests) >= L.maxRequests
    THEN [ret |-> FALSE, requests |-> L.requests]
    ELSE [ret |-> TRUE,
          requests |-> [L.requests EXCEPT ![identifier] = Append(validRequests, now)]]

\* getRemainingRequests(identifier)
getRemainingRequests(L, identifier, now) ==
    LET left == L.maxRequests - Len(ValidRequests(L, identifier, now)) IN
    IF left > 0 THEN left ELSE 0

\* Math.min(...requests)
MinOf(list) == CHOOSE t \in {list[i] : i \in 1..Len(list)} :
                  \A i \in 1..Len(list) : t <= list[i]

\* getResetTime(identifier)
getResetTime(L, identifier) ==
    IF Len(L.requests[identifier]) = 0 THEN 0
    ELSE MinOf(L.requests[identifier]) + L.windowMs

(***************************************************************************)
(* processTripleBackticks                                                  *)
(***************************************************************************)
\* the fence "<FENCE>" stands for three backticks.  The chunks of a fenced text are single
\* characters (or contain none of the characters that are escaped).
Fence == "<FENCE>"

RECURSIVE ReplaceAll(_, _, _)
\* String.prototype.replace(/from/g, to) for a one-character pattern
ReplaceAll(s, from, to) ==
    IF s = <<>> THEN <<>>
    ELSE (IF Head(s) = from THEN to ELSE <<Head(s)>>) \o ReplaceAll(Tail(s), from, to)

\* the five replacements on the fenced content, in the order of the code
Escaped(content) ==
    ReplaceAll(
      ReplaceAll(
        ReplaceAll(
          ReplaceAll(
            ReplaceAll(content, "\\", <<"\\", "\\">>),
            "\"", <<"\\", "\"">>),
          "<LF>", <<"\\", "n">>),
        "<CR>", <<"\\", "r">>),
      "<TAB>", <<"\\", "t">>)

\* return `"${escaped}"`
FenceReplacement(content) == <<"\"">> \o Escaped(content) \o <<"\"">>

\* index of the first fence of s behind position from, 0 when there is none
NextFence(s, from) ==
    IF \E k \in (from + 1)..Len(s) : s[k] = Fence
    THEN CHOOSE k \in (from + 1)..Len(s) :
            s[k] = Fence /\ \A j \in (from + 1)..(k - 1) : s[j] # Fence
    ELSE 0

RECURSIVE processTripleBackticks_closesAtEnd(_)
\* a variant that lets a fence without a closing fence run to the end of the text
processTripleBackticks_closesAtEnd(s) ==
    Only({ IF i = 0 THEN s
           ELSE Only({ IF j = 0
                       THEN SubSeq(s, 1, i - 1) \o FenceReplacement(SubSeq(s, i + 1, Len(s)))
                       ELSE SubSeq(s, 1, i - 1) \o FenceReplacement(SubSeq(s, i + 1, j - 1))
                              \o processTripleBackticks_closesAtEnd(SubSeq(s, j + 1, Len(s))) :
                       j \in {NextFence(s, i)} }) :
           i \in {NextFence(s, 0)} })

RECURSIVE processTripleBackticks(_)
\* jsonString.replace(/```([\s\S]*?)```/g, ...): the leftmost fence and the
\* nearest fence behind it enclose a region; the search goes on behind it
processTripleBackticks(s) ==
    Only({ IF i = 0 THEN s
           ELSE Only({ IF j = 0 THEN s
                       ELSE SubSeq(s, 1, i - 1) \o FenceReplacement(SubSeq(s, i + 1, j - 1))
                              \o processTripleBackticks(SubSeq(s, j + 1, Len(s))) :
                       j \in {NextFence(s, i)} }) :
           i \in {NextFence(s, 0)} })

(***************************************************************************)
(* useLocalStorage: the request history                                    *)
(***************************************************************************)
MAX_REQUESTS == HistMaxRequests

\* a variant of the type test that does not look at the id
IsSavedRequest_noIdTest(req) ==
    {"method", "url", "headers", "body", "timestamp"} \subseteq DOMAIN req

\* the type test of loadRequests and importHistory on one entry of a file
IsSavedRequest(req) ==
    {"id", "method", "url", "headers", "body", "timestamp"} \subseteq DOMAIN req

\* Array.prototype.slice(0, n)
Slice(list, n) == SubSeq(list, 1, IF Len(list) < n THEN Len(list) ELSE n)

\* list without its element at position i
RemoveAt(list, i) == SubSeq(list, 1, i - 1) \o SubSeq(list, i + 1, Len(list))

RECURSIVE SortNewestFirst(_)
\* .sort((a, b) => b.timestamp - a.timestamp): the sort is stable, so entries
\* with the same timestamp keep their order
SortNewestFirst(list) ==
    IF Len(list) <= 1 THEN list
    ELSE Only({ <<list[i]>> \o SortNewestFirst(RemoveAt(list, i)) :
                i \in {CHOOSE k \in 1..Len(list) :
                          /\ \A j \in 1..Len(list) : list[j].timestamp <= list[k].timestamp
                          /\ \A j \in 1..(k - 1) : list[j].timestamp < list[k].timestamp} })

\* validRequests of loadRequests
LoadedList(file) ==
    Slice(SortNewestFirst(SelectSeq(file, IsSavedRequest)), MAX_REQUESTS)

\* validRequests of importHistory
ImportedList(file) == Slice(SelectSeq(file, IsSavedRequest), MAX_REQUESTS)

\* a variant that drops only the entries with the URL and method of the
\* new one that are next to it
WithoutSamePair_firstOnly(prevRequests, newRequest) ==
    IF prevRequests # <<>> /\ Head(prevRequests).url = newRequest.url
                           /\ Head(prevRequests).method = newRequest.method
    THEN Tail(prevRequests) ELSE prevRequests

\* prevRequests.filter(req => !(req.url === newRequest.url && req.method === newRequest.method))
WithoutSamePair(prevRequests, newRequest) ==
    SelectSeq(prevRequests,
              LAMBDA req : ~(req.url = newRequest.url /\ req.method = newRequest.method))

\* a variant that cuts the list one entry too late
SavedList_offByOne(prevRequests, newRequest) ==
    Slice(<<newRequest>> \o WithoutSamePair(prevRequests, newRequest), MAX_REQUESTS + 1)

\* updated of saveRequest
SavedList(prevRequests, newRequest) ==
    Slice(<<newRequest>> \o WithoutSamePair(prevRequests, newRequest), MAX_REQUESTS)

(***************************************************************************)
(* State                                                                   *)
(***************************************************************************)
VARIABLES
    lastIndex,      \* lastIndex of the five INJECTION_PATTERNS (module state of lib/security)
    production,     \* window.location.hostname !== 'localhost'
    vcall,          \* the latest direct call of a validator function and its result
    limiter,        \* the RateLimiter object in use (of the current sendRequest closure)
    now,            \* Date.now() / performance.now()
    lcall,          \* the latest direct call of a RateLimiter method and its result
    grants,         \* per identity, the times at which isAllowed returned true
    draft,          \* useRequestState: method, url, headers, body
    response,       \* useState<ApiResponse | null>
    error,          \* useState<string | null>
    loading,        \* useState(false)
    requestSuccess, \* useState(false)
    inflight,       \* executions of sendRequest suspended at an await
    nexec,          \* number of sendRequest calls so far
    lastDone,       \* the execution that ended most recently, and how
    saveCalls,      \* number of saveRequest calls so far
    fetchLog,       \* the times at which fetch was called
    pcall,          \* the latest direct call of processTripleBackticks and its result
    wire,           \* the latest request handed to fetch, with the draft it was
                    \* built from and the body that was handed to the validator
    requests,       \* useLocalStorage: the history list in memory
    storage,        \* localStorage under STORAGE_KEY
    pendingSave,    \* the debounced save that saveTimeoutRef holds
    loaded,         \* the mount effect (loadRequests) has run
    nextId,         \* number of the next entry saveRequest creates
    savedRun,       \* the entries created by saveRequest since the last other operation
    historyError,   \* useLocalStorage: useState<string | null> error
    importOutcome,  \* how importHistory ended, when it was the latest step
    cleared,        \* clearHistory ran and neither saveRequest nor importHistory since
    threw,          \* the call of localStorage that threw first in the latest step
    panel,          \* useLocalStorage as RequestHistory holds it: its list, its
                    \* debounced save, whether its mount effect has run, and
                    \* the ids it deleted and whether it cleared
    state,          \* the draft store kept in a cookie: useState<RequestState>
    cookie,         \* Cookies.get(COOKIE_NAME)
    saveTimeout,    \* the debounced save that the draft store's saveTimeoutRef holds
    lastSavedState, \* lastSavedStateRef.current
    isLoaded        \* the mount effect of the draft store has run

valVars == <<lastIndex, production, vcall>>

histVars == <<requests, storage, pendingSave, loaded, nextId, savedRun,
              historyError, importOutcome, cleared, threw, panel>>

draftVars == <<state, cookie, saveTimeout, lastSavedState, isLoaded>>

auxVars == <<pcall, wire, histVars, draftVars>>

limVars == <<limiter, now, lcall, grants>>

pageVars == <<draft, response, error, loading, requestSuccess, inflight,
              nexec, lastDone, saveCalls, fetchLog>>

vars == <<lastIndex, production, vcall, limiter, now, lcall, grants, draft,
          response, error, loading, requestSuccess, inflight, nexec, lastDone,
          saveCalls, fetchLog, pcall, wire, requests, storage, pendingSave, loaded,
          historyError, importOutcome, cleared, threw, state, cookie, saveTimeout, lastSavedState, isLoaded,
          nextId, savedRun, panel>>

(***************************************************************************)
(* Inputs of the validator                                                 *)
(***************************************************************************)
CleanUrl == <<"https:", "//example.com">>
HandlerUrl == <<"https:", "//example.com", "/api?q=", "onload=">>

Urls ==
    { <<>>, <<" ">>, <<"example.com">>, <<"https:">>,
      CleanUrl, <<"http:", "//example.com", "/api?q=">>, HandlerUrl,
      <<"https:", "//example.com", "/api?q=", "ftp:">>,
      <<"https:", "//example.com", "/api?q=", "<2049 chars>">>,
      <<"https:", "//127.0.0.1">>,
      <<"http:", "//0.0.0.0">>, <<"http:", "//[::]">>,
      <<"javascript:", "alert(1)">>, <<"JAVASCRIPT:", "alert(1)">>,
      <<"data:text/html", "alert(1)">>,
      <<"ftp:", "//example.com">>, <<"file:", "//example.com">>,
      <<"mailto:", "a@b.c">> }

Hdr(k, v) == [key |-> k, value |-> v]

DefaultHeaders == << Hdr("Content-Type", <<"application/json">>) >>

HeaderLists ==
    { <<>>, DefaultHeaders,
      << Hdr("X-Foo", <<"bar">>) >>,
      << Hdr("Authorization", <<"bar">>) >>,
      << Hdr("X-Foo", <<"bar">>), Hdr("x-foo", <<"bar">>) >>,
      << Hdr("X-Foo", <<"onload=">>) >>,
      << Hdr("Bad Name", <<"bar">>) >>,
      << Hdr("X-Foo", <<"bar", "<LF>">>) >>,
      << Hdr("X-Foo", <<"<8193 chars>">>) >>,
      << Hdr("", <<"onload=">>) >>,
      << Hdr("X-Foo", <<>>) >>,
      [i \in 1..(maxHeaderCount + 1) |-> Hdr("", <<>>)] }

Bodies ==
    { <<>>, <<" ">>, <<"{\"a\":1}">>, <<"{a:">>, <<"password=hunter2">>,
      <<"hello", "<script>x</script>">>, <<"<10485761 chars>">> }

\* the requests validateRequest is called with directly
ReqUrls ==
    { <<>>, HandlerUrl,
      <<"https:", "//example.com", "/api?q=", "ftp:">>,
      <<"https:", "//127.0.0.1">>, <<"http:", "//0.0.0.0">>, <<"mailto:", "a@b.c">> }

ReqMethods == {"GET", "post", "TRACE"}

ReqHeaderLists ==
    { << Hdr("X-Foo", <<"bar">>) >>,
      << Hdr("Authorization", <<"bar">>), Hdr("authorization", <<"bar">>) >>,
      << Hdr("X-Foo", <<"onload=">>) >> }

ReqBodies == { <<"{a:", "password=hunter2">>, <<"onload=">> }

NoCall == [fn |-> "none", url |-> <<>>, method |-> "", headers |-> <<>>, body |-> <<>>,
           isValid |-> TRUE, errors |-> <<>>, warnings |-> <<>>]

VCall(fn, url, method, headers, body, r) ==
    [fn |-> fn, url |-> url, method |-> method, headers |-> headers, body |-> body,
     isValid |-> r.isValid, errors |-> r.errors, warnings |-> r.warnings]

(***************************************************************************)
(* Values of the state before anything has happened                        *)
(***************************************************************************)
NoLimCall == [op |-> "none", id |-> clientId, at |-> 0, ret |-> 0]

NoGrants == [id \in LimiterIds |-> <<>>]

\* DEFAULT_STATE of useRequestState
DefaultDraft == [method |-> "GET", url |-> <<>>, headers |-> DefaultHeaders, body |-> <<>>]

NoResponse == [eid |-> 0, status |-> 0, contentType |-> "", data |-> "none"]

NoError == [kind |-> "none"]

NoneDone == [eid |-> 0, outcome |-> "none"]

\* the validator log is idle
IdleValidate == vcall = NoCall

\* the limiter log is idle
IdleLimiterLog == lcall = NoLimCall /\ grants = NoGrants

\* the page has just been mounted with the default draft
IdlePage ==
    /\ draft = DefaultDraft
    /\ response = NoResponse
    /\ error = NoError
    /\ loading = FALSE
    /\ requestSuccess = FALSE
    /\ inflight = {}
    /\ nexec = 0
    /\ lastDone = NoneDone
    /\ saveCalls = 0
    /\ fetchLog = <<>>

\* no request has been handed to fetch
NoWire == [eid |-> 0]

\* localStorage.getItem(STORAGE_KEY) is null
NoStorage == [form |-> "null", version |-> 0, requests |-> <<>>]

\* saveTimeoutRef holds no timer
NoPending == [armed |-> FALSE, requests |-> <<>>, elapsed |-> 0]

\* error of useLocalStorage is null
NoHistoryError == "null"

\* importHistory was not the latest call
NoImport == [called |-> FALSE, thrown |-> FALSE, count |-> 0]

\* DEFAULT_STATE of the draft store kept in a cookie
DEFAULT_STATE ==
    [method |-> "GET", url |-> <<"https:", "//jsonplaceholder.typicode.com/posts/1">>,
     headers |-> DefaultHeaders, body |-> <<>>]

\* Cookies.get(COOKIE_NAME) is undefined
NoCookie == [present |-> FALSE, form |-> "none", value |-> DEFAULT_STATE]

\* Cookies.set(COOKIE_NAME, JSON.stringify(newState)): the text names the
\* four fields of newState and nothing else
Stringified(newState) == [present |-> TRUE, form |-> "state", value |-> newState]

\* the draft store's saveTimeoutRef holds no timer
NoSaveTimeout == [armed |-> FALSE, newState |-> DEFAULT_STATE]

\* the draft store before any call, its mount effect aside
IdleDraftHook ==
    /\ state = DEFAULT_STATE
    /\ saveTimeout = NoSaveTimeout
    /\ lastSavedState = NoCookie

\* the draft store after a mount effect that found no cookie
IdleDraft == IdleDraftHook /\ cookie = NoCookie /\ isLoaded = TRUE

NoPCall == [fn |-> "none", input |-> <<>>, output |-> <<>>, source |-> "none"]

\* the history hook before its mount effect
\* the hook instance of RequestHistory before its mount effect
NoPanel ==
    [requests |-> <<>>, pendingSave |-> NoPending, loaded |-> FALSE,
     deleted |-> {}, cleared |-> FALSE]

IdleHook ==
    /\ requests = <<>>
    /\ pendingSave = NoPending
    /\ loaded = FALSE
    /\ nextId = 1
    /\ savedRun = <<>>
    /\ historyError = NoHistoryError
    /\ importOutcome = NoImport
    /\ cleared = FALSE
    /\ threw = "none"
    /\ panel = NoPanel

\* the history hook before its mount effect, with nothing persisted
IdleHistory == IdleHook /\ storage = NoStorage

\* nothing else has been called
IdleAux == pcall = NoPCall /\ wire = NoWire /\ IdleHistory /\ IdleDraft

(***************************************************************************)
(* Direct calls of the validator functions (specification SpecValidate)    *)
(***************************************************************************)
InitValidate ==
    /\ lastIndex = FreshPatterns
    /\ production \in BOOLEAN
    /\ IdleValidate
    /\ limiter = NewRateLimiter(LimMaxRequests, WindowMs)
    /\ now = 0
    /\ IdleLimiterLog
    /\ IdlePage
    /\ IdleAux

CallValidateUrl(url) ==
    \E r \in {validateUrl(url, lastIndex, production)} :
    /\ vcall' = VCall("validateUrl", url, "", <<>>, <<>>, r)
    /\ lastIndex' = r.re
    /\ UNCHANGED <<auxVars, production, limVars, pageVars>>

CallValidateHeaders(headers) ==
    \E r \in {validateHeaders(headers, lastIndex)} :
    /\ vcall' = VCall("validateHeaders", <<>>, "", headers, <<>>, r)
    /\ lastIndex' = r.re
    /\ UNCHANGED <<auxVars, production, limVars, pageVars>>

CallValidateBody(body) ==
    \E r \in {validateBody(body, lastIndex)} :
    /\ vcall' = VCall("validateBody", <<>>, "", <<>>, body, r)
    /\ lastIndex' = r.re
    /\ UNCHANGED <<auxVars, production, limVars, pageVars>>

CallValidateRequest(url, method, headers, body) ==
    \E r \in {validateRequest(url, method, headers, body, lastIndex, production)} :
    /\ vcall' = VCall("validateRequest", url, method, headers, body, r)
    /\ lastIndex' = r.re
    /\ UNCHANGED <<auxVars, production, limVars, pageVars>>

NextValidate ==
    \/ \E url \in Urls : CallValidateUrl(url)
    \/ \E headers \in HeaderLists : CallValidateHeaders(headers)
    \/ \E body \in Bodies : CallValidateBody(body)
    \/ \E url \in ReqUrls, method \in ReqMethods, headers \in ReqHeaderLists,
          body \in ReqBodies : CallValidateRequest(url, method, headers, body)

SpecValidate == InitValidate /\ [][NextValidate]_vars

(***************************************************************************)
(* Claims about the validator                                              *)
(***************************************************************************)
SameCall(a, b) ==
    /\ a.fn = b.fn /\ a.url = b.url /\ a.method = b.method
    /\ a.headers = b.headers /\ a.body = b.body

\* C2: the validator functions are pure and deterministic: a call with the
\* same function and the same arguments as the call before it returns the
\* same isValid, errors and warnings.
C2_SameInputSameResult ==
    [][(vcall.fn # "none" /\ SameCall(vcall, vcall')) => vcall' = vcall]_vars

\* findings of the error kind, stated on the arguments alone
UrlHasErrorFinding(url) ==
    \/ trim(url) = <<>>
    \/ StrLen(url) > maxUrlLength
    \/ ~ParseUrl(url).ok
    \/ ParseUrl(url).protocol \notin {"http:", "https:"}
    \/ \E i \in 1..Len(url) :
          url[i] \in {"javascript:", "JAVASCRIPT:", "data:text/html", "file:", "ftp:", "vbscript:"}
    \/ ParseUrl(url).hostname \in {"0.0.0.0", "[::]"}
    \/ HasInjection(url)

HeadersHaveErrorFinding(headers) ==
    \/ Len(headers) > maxHeaderCount
    \/ \E i \in 1..Len(headers) :
          /\ headers[i].key # "" /\ headers[i].value # <<>>
          /\ \/ ~IsHeaderName(headers[i].key)
             \/ StrLen(headers[i].value) > maxHeaderValueLength
             \/ HasInjection(headers[i].value)
             \/ HasControlChar(headers[i].value)

BodyHasErrorFinding(method, body) ==
    /\ toUpperCase(method) \in {"POST", "PUT", "PATCH"}
    /\ trim(body) # <<>>
    /\ (StrLen(body) > maxBodySize \/ HasInjection(body))

HasErrorFinding(c) ==
    \/ UrlHasErrorFinding(c.url)
    \/ toUpperCase(c.method) \notin {"GET", "POST", "PUT", "PATCH", "DELETE", "HEAD", "OPTIONS"}
    \/ HeadersHaveErrorFinding(c.headers)
    \/ BodyHasErrorFinding(c.method, c.body)

\* C4: the result of validateRequest has isValid = (errors is empty), and a
\* request with no finding of the error kind is valid whatever warnings it
\* draws (sensitive or duplicate header names, a body that looks like JSON
\* but does not parse, probable secrets, a body on a method without one,
\* a private host).
C4_WarningsNeverBlock ==
    vcall.fn = "validateRequest" =>
        /\ vcall.isValid = (vcall.errors = <<>>)
        /\ (~HasErrorFinding(vcall) => vcall.isValid)

\* a request that drew at least two warnings and was found valid
C4_Witness ==
    /\ vcall.fn = "validateRequest"
    /\ Len(vcall.warnings) >= 5
    /\ vcall.isValid
    /\ vcall.errors = <<>>

\* the URLs C5 is about
UrlMustBeRejected(url) ==
    \/ trim(url) = <<>>
    \/ ~ParseUrl(url).ok
    \/ ParseUrl(url).protocol \notin {"http:", "https:"}
    \/ \E i \in 1..Len(url) :
          url[i] \in {"javascript:", "JAVASCRIPT:", "data:text/html", "file:", "ftp:", "vbscript:"}
    \/ ParseUrl(url).hostname \in {"0.0.0.0", "[::]"}

\* C5: validateRequest (and validateUrl) report isValid = false with a
\* non-empty error list for every URL that is empty, is not an absolute URL,
\* has a scheme other than http or https, contains a dangerous protocol name
\* anywhere in its text, or has a wildcard host.
C5_BadUrlRejected ==
    (vcall.fn \in {"validateRequest", "validateUrl"} /\ UrlMustBeRejected(vcall.url)) =>
        (~vcall.isValid /\ vcall.errors # <<>>)

\* an http URL with a wildcard host was rejected by validateRequest
C5_Witness ==
    /\ vcall.fn = "validateRequest"
    /\ vcall.url = <<"http:", "//0.0.0.0">>
    /\ ~vcall.isValid
    /\ \E i \in 1..Len(vcall.errors) :
          vcall.errors[i] = <<"Requests to wildcard addresses are not allowed">>

(***************************************************************************)
(* Direct calls of the RateLimiter methods (specification SpecLimiter)     *)
(***************************************************************************)
InitLimiter ==
    /\ lastIndex = FreshPatterns
    /\ production = FALSE
    /\ IdleValidate
    /\ limiter = NewRateLimiter(LimMaxRequests, WindowMs)
    /\ now = 0
    /\ IdleLimiterLog
    /\ IdlePage
    /\ IdleAux

CallIsAllowed(id) ==
    \E r \in {isAllowed(limiter, id, now)} :
    /\ limiter' = [limiter EXCEPT !.requests = r.requests]
    /\ lcall' = [op |-> "isAllowed", id |-> id, at |-> now, ret |-> IF r.ret THEN 1 ELSE 0]
    /\ grants' = IF r.ret THEN [grants EXCEPT ![id] = Append(@, now)] ELSE grants
    /\ UNCHANGED <<now, auxVars, valVars, pageVars>>

CallGetRemainingRequests(id) ==
    /\ lcall' = [op |-> "getRemainingRequests", id |-> id, at |-> now,
                 ret |-> getRemainingRequests(limiter, id, now)]
    /\ UNCHANGED <<limiter, now, grants, auxVars, valVars, pageVars>>

CallGetResetTime(id) ==
    /\ lcall' = [op |-> "getResetTime", id |-> id, at |-> now,
                 ret |-> getResetTime(limiter, id)]
    /\ UNCHANGED <<limiter, now, grants, auxVars, valVars, pageVars>>

\* the clock advances
LimiterTick ==
    /\ now < LimMaxTicks * TickMs
    /\ now' = now + TickMs
    /\ UNCHANGED <<limiter, lcall, grants, auxVars, valVars, pageVars>>

NextLimiter ==
    \/ \E id \in LimiterIds : CallIsAllowed(id)
    \/ \E id \in LimiterIds : CallGetRemainingRequests(id)
    \/ \E id \in LimiterIds : CallGetResetTime(id)
    \/ LimiterTick

SpecLimiter == InitLimiter /\ [][NextLimiter]_vars

(***************************************************************************)
(* Claims about the RateLimiter                                            *)
(***************************************************************************)
ClockValues == {k * TickMs : k \in 0..LimMaxTicks}

\* number of grants to id at times t with from <= t < to
GrantsIn(id, from, to) ==
    Cardinality({i \in 1..Len(grants[id]) : from <= grants[id][i] /\ grants[id][i] < to})

\* C6: for every identity, a span shorter than windowMs holds at most
\* maxRequests calls of isAllowed that returned true; isAllowed returns false
\* only when maxRequests grants lie within the window that ends at the call
\* (so the first maxRequests calls of a window return true, the next one
\* false, and a call after the window has elapsed true again).
C6_SlidingWindowCap ==
    /\ \A id \in LimiterIds, t \in ClockValues :
          GrantsIn(id, t, t + limiter.windowMs) <= limiter.maxRequests
    /\ (lcall.op = "isAllowed" /\ lcall.ret = 0) =>
          GrantsIn(lcall.id, lcall.at - limiter.windowMs + 1, lcall.at + 1)
              = limiter.maxRequests

\* an identity that had used up its cap was granted a call again later
C6_Witness ==
    /\ lcall.op = "isAllowed"
    /\ lcall.ret = 1
    /\ Len(grants[lcall.id]) > limiter.maxRequests
    /\ GrantsIn(lcall.id, 0, limiter.windowMs) = limiter.maxRequests

\* C8: the recorded timestamps change only by a call of isAllowed that
\* returns true, and then only the list of the identity of that call changes.
C8_OnlyGrantsRecord ==
    [][limiter'.requests # limiter.requests =>
          /\ lcall'.op = "isAllowed"
          /\ lcall'.ret = 1
          /\ \A id \in LimiterIds \ {lcall'.id} :
                limiter'.requests[id] = limiter.requests[id]]_vars

\* a call of isAllowed was refused while the other identity holds a timestamp
C8_Witness ==
    /\ lcall.op = "isAllowed"
    /\ lcall.ret = 0
    /\ \E id \in LimiterIds \ {lcall.id} : Len(limiter.requests[id]) = 1

(***************************************************************************)
(* The page: ApiTester, its sendRequest and NetworkStatusIndicator         *)
(***************************************************************************)
\* setTimeout(() => timeoutController.abort(), 30000)
TimeoutMs == 30000

PageUrls == { <<>>, CleanUrl, HandlerUrl }

PageMethods == {"GET", "POST"}

PageHeaderLists == { DefaultHeaders, <<>>, << Hdr("X-Foo", <<"onload=">>) >> }

PageBodies == { <<>>, <<"onload=">> }

\* the drafts the page is taken through: the default draft, a clean GET and a
\* clean POST, and a request with an event-handler attribute in its URL (with
\* the default header row and with the row removed), in a header value, in
\* its body
PageDrafts ==
    { DefaultDraft,
      [method |-> "GET", url |-> CleanUrl, headers |-> DefaultHeaders, body |-> <<>>],
      [method |-> "POST", url |-> CleanUrl, headers |-> DefaultHeaders, body |-> <<>>],
      [method |-> "GET", url |-> HandlerUrl, headers |-> DefaultHeaders, body |-> <<>>],
      [method |-> "GET", url |-> HandlerUrl, headers |-> <<>>, body |-> <<>>],
      [method |-> "GET", url |-> CleanUrl, headers |-> << Hdr("X-Foo", <<"onload=">>) >>,
       body |-> <<>>],
      [method |-> "POST", url |-> CleanUrl, headers |-> DefaultHeaders,
       body |-> <<"onload=">>] }

\* requests loaded from the history or from the examples: a lower-case method
\* with a JSON body, a header list with an empty value and a repeated key, a
\* POST whose JSON body holds a fenced text, a POST with a JSON body, and a
\* GET with a body
SendDrafts ==
    { [method |-> "post", url |-> CleanUrl, headers |-> DefaultHeaders,
       body |-> <<"{\"a\":1}">>],
      [method |-> "GET", url |-> CleanUrl,
       headers |-> << Hdr("X-Foo", <<"bar">>), Hdr("Content-Type", <<>>),
                      Hdr("X-Foo", <<"hello">>) >>,
       body |-> <<>>],
      [method |-> "POST", url |-> CleanUrl, headers |-> DefaultHeaders,
       body |-> <<"{\"html\":", Fence, "x", Fence, "}">>],
      [method |-> "POST", url |-> CleanUrl, headers |-> DefaultHeaders,
       body |-> <<"{\"a\":1}">>],
      [method |-> "GET", url |-> CleanUrl, headers |-> DefaultHeaders,
       body |-> <<"hello">>] }

AllDrafts == PageDrafts \cup SendDrafts

\* status codes and content types the server may answer with
Statuses == {200, 500}

\* "" stands for a response without a content-type header
ContentTypes == {"application/json; charset=utf-8", "text/plain", "image/png", ""}

\* the strings of a draft that the validator scans
DraftStrings(d) ==
    {d.url, d.body} \cup {d.headers[i].value : i \in 1..Len(d.headers)}

\* the offsets at which a match of an injection pattern in s ends
MatchEnds(s) ==
    {ChunkStart(s, i) + ChunkLen(s[i]) :
        i \in {k \in 1..Len(s) : \E p \in PatternIds : s[k] \in PatternChunks(p)}}

\* the values lastIndex can take while the page validates its drafts
PageLastIndexes ==
    [PatternIds -> {0} \cup UNION {MatchEnds(s) : s \in UNION {DraftStrings(d) : d \in AllDrafts}}]

\* validateRequest(url, method, headers, body) as the page calls it, tabulated
\* over the drafts and the pattern states of the page
ValidateDraft ==
    [d \in AllDrafts, re \in PageLastIndexes |->
        validateRequest(d.url, d.method, d.headers, d.body, re, TRUE)]

\* a render of ApiTester renders NetworkStatusIndicator, which validates the
\* draft: the lastIndex of the shared patterns after the render
RenderIndicator(d, re) == ValidateDraft[d, re].re

\* a render of ApiTester: `const rateLimiter = new RateLimiter(30, 60000)` runs
\* again, and sendRequest is created again (showNotification, one of its
\* dependencies, is a new function in every render) and closes over the new
\* limiter; a handler that changed no state causes no render
Rendered(changed, d, re, L) ==
    IF changed
    THEN [lastIndex |-> RenderIndicator(d, re),
          limiter |-> NewRateLimiter(PageMaxRequests, WindowMs)]
    ELSE [lastIndex |-> re, limiter |-> L]

\* a variant of the validation gate that stops only a request with several errors
ValidationRejects_severalErrors(validation) ==
    ~validation.isValid /\ Len(validation.errors) > 1

\* if (!validation.isValid) { setError(...); return; }
ValidationRejects(validation) == ~validation.isValid

\* the request the fetch call of an execution carries
WireHeaders(d) == SelectSeq(d.headers, LAMBDA h : h.key # "" /\ h.value # <<>>)

SendsBody(d) == d.method \in {"POST", "PUT", "PATCH"} /\ trim(d.body) # <<>>

\* headers.reduce((acc, header) => { acc[header.key] = header.value; ... }, {}):
\* the object as the set of its <<key, value>> properties; a later assignment
\* to a key replaces the earlier one
HeaderMap(d) ==
    LET hs == WireHeaders(d) IN
    { <<hs[i].key, hs[i].value>> :
        i \in {k \in 1..Len(hs) : \A j \in (k + 1)..Len(hs) : hs[j].key # hs[k].key} }

\* fetch puts the method names DELETE, GET, HEAD, OPTIONS, POST and PUT into
\* upper case, and sends every other method name as it is
NormalizeMethod(method) ==
    IF toUpperCase(method) \in {"DELETE", "GET", "HEAD", "OPTIONS", "POST", "PUT"}
    THEN toUpperCase(method) ELSE method

\* the body validateRequest is called with in sendRequest
ValidatedBody(d) == d.body

\* requestOptions of the execution eid, as fetch sends them
RequestOptions(eid, d) ==
    [eid |-> eid, draft |-> d, validated |-> ValidatedBody(d),
     method |-> NormalizeMethod(d.method), headers |-> HeaderMap(d),
     hasBody |-> SendsBody(d),
     body |-> IF SendsBody(d) THEN processTripleBackticks(d.body) ELSE <<>>]

InitPage ==
    /\ lastIndex = RenderIndicator(DefaultDraft, FreshPatterns)
    /\ production = TRUE
    /\ IdleValidate
    /\ limiter = NewRateLimiter(PageMaxRequests, WindowMs)
    /\ now = 0
    /\ IdleLimiterLog
    /\ IdlePage
    /\ IdleAux

\* a field setter of useRequestState, which writes the cookie in its state
\* updater, followed by the render it causes
EditDraft(d) ==
    /\ d \in PageDrafts
    /\ \E r \in {Rendered(TRUE, d, lastIndex, limiter)} :
          /\ draft' = d
          /\ lastIndex' = r.lastIndex
          /\ limiter' = r.limiter
    /\ cookie' = Stringified(d)
    /\ UNCHANGED <<pcall, wire, histVars, state, saveTimeout, lastSavedState, isLoaded,
                   production, vcall, now, lcall, grants, response, error,
                   loading, requestSuccess, inflight, nexec, lastDone, saveCalls, fetchLog>>

setMethod(method) == EditDraft([draft EXCEPT !.method = method])

setUrl(url) == EditDraft([draft EXCEPT !.url = url])

setHeaders(headers) == EditDraft([draft EXCEPT !.headers = headers])

setBody(body) == EditDraft([draft EXCEPT !.body = body])

\* a variant that asks the limiter before it looks at the validation
RecordedBy_limiterFirst(validation, allowed, L) ==
    [L EXCEPT !.requests = allowed.requests]

\* the limiter after the checks of sendRequest: isAllowed is called, and may
\* record the call, only when the validation has not ended the execution
RecordedBy(validation, allowed, L) ==
    IF ValidationRejects(validation) THEN L
    ELSE [L EXCEPT !.requests = allowed.requests]

\* sendRequest up to its first await (or its early return), and the render
\* caused by the state it set
SendRequest ==
    /\ nexec < MaxExec
    /\ Cardinality(inflight) < MaxInflight
    /\ \E validation \in {ValidateDraft[draft, lastIndex]} :
       \E allowed \in {isAllowed(limiter, clientId, now)} :
       LET eid == nexec + 1
           L2 == RecordedBy(validation, allowed, limiter)
       IN
       /\ nexec' = eid
       /\ IF ValidationRejects(validation)
          THEN \E r \in {Rendered(error # [kind |-> "validation", errors |-> validation.errors],
                                  draft, validation.re, L2)} :
               /\ error' = [kind |-> "validation", errors |-> validation.errors]
               /\ lastDone' = [eid |-> eid, outcome |-> "rejected"]
               /\ lastIndex' = r.lastIndex
               /\ limiter' = r.limiter
               /\ UNCHANGED <<loading, requestSuccess, inflight, fetchLog, wire>>
          ELSE IF ~allowed.ret
          THEN LET e2 == [kind |-> "rateLimit",
                          remaining |-> getRemainingRequests(limiter, clientId, now),
                          resetTime |-> getResetTime(limiter, clientId)]
               IN \E r \in {Rendered(error # e2, draft, validation.re, L2)} :
               /\ error' = e2
               /\ lastDone' = [eid |-> eid, outcome |-> "rateLimited"]
               /\ lastIndex' = r.lastIndex
               /\ limiter' = r.limiter
               /\ UNCHANGED <<loading, requestSuccess, inflight, fetchLog, wire>>
          ELSE \E r \in {Rendered(error # NoError \/ ~loading \/ requestSuccess,
                                  draft, validation.re, L2)} :
               /\ error' = NoError
               /\ loading' = TRUE
               /\ requestSuccess' = FALSE
               /\ inflight' = inflight \cup
                     {[eid |-> eid, pc |-> "fetch", start |-> now,
                       status |-> 0, contentType |-> ""]}
               /\ fetchLog' = Append(fetchLog, now)
               /\ wire' = RequestOptions(eid, draft)
               /\ lastIndex' = r.lastIndex
               /\ limiter' = r.limiter
               /\ UNCHANGED lastDone
    /\ UNCHANGED <<pcall, histVars, draftVars, production, vcall, now, lcall, grants, draft, response,
                   saveCalls>>

\* contentType?.includes(part): false for a response without a content-type
ContentTypeIncludes(contentType, part) ==
    CASE part = "application/json" ->
            contentType \in {"application/json", "application/json; charset=utf-8"}
      [] part = "text/" -> contentType \in {"text/plain", "text/html"}

\* a variant that reads a body as JSON only for the bare media type
BodyHandling_exactMatch(contentType) ==
    IF contentType = "application/json" THEN "json"
    ELSE IF ContentTypeIncludes(contentType, "text/") THEN "text"
    ELSE "binary"

\* how sendRequest reads the body: by the content-type of the response
BodyHandling(contentType) ==
    IF ContentTypeIncludes(contentType, "application/json") THEN "json"
    ELSE IF ContentTypeIncludes(contentType, "text/") THEN "text"
    ELSE "binary"

\* a variant of the success path that records only responses with an ok status
CompletionEffects_okOnly(e, data, saves) ==
    [response |-> [eid |-> e.eid, status |-> e.status, contentType |-> e.contentType,
                   data |-> data],
     requestSuccess |-> TRUE,
     saveCalls |-> IF e.status < 400 THEN saves + 1 ELSE saves,
     loading |-> FALSE]

\* the success path of sendRequest after the body has been obtained:
\* setResponse, setRequestSuccess(true), saveRequest, and finally setLoading(false)
CompletionEffects(e, data, saves) ==
    [response |-> [eid |-> e.eid, status |-> e.status, contentType |-> e.contentType,
                   data |-> data],
     requestSuccess |-> TRUE,
     saveCalls |-> saves + 1,
     loading |-> FALSE]

\* a variant of the catch block that does not tell an abort from other errors
ErrorMessage_abortUnnamed(name, messageHasFetch) ==
    IF messageHasFetch THEN [kind |-> "network"] ELSE [kind |-> "message"]

\* the message chosen by the catch block: "Request timed out (30s)"; for a
\* message that includes 'fetch', "Network error" or the offline text (kind
\* network); otherwise err.message itself
ErrorMessage(name, messageHasFetch) ==
    IF name = "AbortError" THEN [kind |-> "timeout"]
    ELSE IF messageHasFetch THEN [kind |-> "network"]
    ELSE [kind |-> "message"]

\* the execution e has obtained its response data: success path and render
Completes(e, data) ==
    \E c \in {CompletionEffects(e, data, saveCalls)} :
    \E r \in {Rendered(TRUE, draft, lastIndex, limiter)} :
    /\ response' = c.response
    /\ requestSuccess' = c.requestSuccess
    /\ saveCalls' = c.saveCalls
    /\ loading' = c.loading
    /\ inflight' = {x \in inflight : x.eid # e.eid}
    /\ lastDone' = [eid |-> e.eid, outcome |-> "completed"]
    /\ lastIndex' = r.lastIndex
    /\ limiter' = r.limiter
    /\ UNCHANGED <<auxVars, production, vcall, now, lcall, grants, draft, error,
                   nexec, fetchLog>>

\* the execution e has thrown: catch block, finally, and render
Fails(e, message, outcome) ==
    \E r \in {Rendered(error # message \/ loading, draft, lastIndex, limiter)} :
    /\ error' = message
    /\ loading' = FALSE
    /\ inflight' = {x \in inflight : x.eid # e.eid}
    /\ lastDone' = [eid |-> e.eid, outcome |-> outcome]
    /\ lastIndex' = r.lastIndex
    /\ limiter' = r.limiter
    /\ UNCHANGED <<auxVars, production, vcall, now, lcall, grants, draft, response,
                   requestSuccess, saveCalls, nexec, fetchLog>>

\* `await fetch(url, requestOptions)` returns a response before the timer fires
FetchResolves(e, status, contentType) ==
    /\ e \in inflight
    /\ e.pc = "fetch"
    /\ now - e.start <= TimeoutMs
    /\ LET e2 == [e EXCEPT !.pc = "body", !.status = status, !.contentType = contentType,
                           !.start = 0]
       IN IF BodyHandling(contentType) = "binary"
          THEN Completes(e2, "binary")
          ELSE /\ inflight' = (inflight \ {e}) \cup {e2}
               /\ UNCHANGED <<auxVars, lastIndex, production, vcall, limiter, now, lcall, grants,
                              draft, response, error, loading, requestSuccess,
                              nexec, lastDone, saveCalls, fetchLog>>

\* `await fetch(...)` rejects: the transport failed
FetchRejects(e, messageHasFetch) ==
    /\ e \in inflight
    /\ e.pc = "fetch"
    /\ now - e.start <= TimeoutMs
    /\ Fails(e, ErrorMessage("TypeError", messageHasFetch), "networkFailed")

\* the 30 s timer fires: abort(), fetch rejects with an AbortError
TimeoutFires(e) ==
    /\ e \in inflight
    /\ e.pc = "fetch"
    /\ now - e.start >= TimeoutMs
    /\ Fails(e, ErrorMessage("AbortError", FALSE), "timedOut")

\* `await response.json()` / `await response.text()` returns or throws
BodyRead(e, ok) ==
    /\ e \in inflight
    /\ e.pc = "body"
    /\ IF ok
       THEN Completes(e, BodyHandling(e.contentType))
       ELSE Fails(e, ErrorMessage("SyntaxError", FALSE), "decodeFailed")

\* the clock advances; a timer that is due fires before the clock goes on
Tick ==
    /\ now < MaxTicks * TickMs
    /\ \A e \in inflight : e.pc = "fetch" => now - e.start < TimeoutMs
    /\ now' = now + TickMs
    /\ UNCHANGED <<auxVars, lastIndex, production, vcall, limiter, lcall, grants, pageVars>>

Next ==
    \/ \E method \in PageMethods : setMethod(method)
    \/ \E url \in PageUrls : setUrl(url)
    \/ \E headers \in PageHeaderLists : setHeaders(headers)
    \/ \E body \in PageBodies : setBody(body)
    \/ SendRequest
    \/ \E e \in inflight, status \in Statuses, contentType \in ContentTypes :
          FetchResolves(e, status, contentType)
    \/ \E e \in inflight, messageHasFetch \in BOOLEAN : FetchRejects(e, messageHasFetch)
    \/ \E e \in inflight : TimeoutFires(e)
    \/ \E e \in inflight, ok \in BOOLEAN : BodyRead(e, ok)
    \/ Tick

Spec == InitPage /\ [][Next]_vars

\* loadRequest(request) of useRequestState, called with an entry of the
\* history or an example, followed by the render it causes
loadRequest(request) ==
    /\ request \in SendDrafts
    /\ \E r \in {Rendered(TRUE, request, lastIndex, limiter)} :
          /\ draft' = request
          /\ lastIndex' = r.lastIndex
          /\ limiter' = r.limiter
    /\ cookie' = Stringified(request)
    /\ UNCHANGED <<pcall, wire, histVars, state, saveTimeout, lastSavedState, isLoaded,
                   production, vcall, now, lcall, grants, response, error,
                   loading, requestSuccess, inflight, nexec, lastDone, saveCalls, fetchLog>>

\* the page with requests loaded into the draft
NextSend ==
    \/ \E request \in SendDrafts : loadRequest(request)
    \/ SendRequest
    \/ \E e \in inflight, status \in Statuses, contentType \in ContentTypes :
          FetchResolves(e, status, contentType)
    \/ \E e \in inflight, messageHasFetch \in BOOLEAN : FetchRejects(e, messageHasFetch)
    \/ \E e \in inflight : TimeoutFires(e)
    \/ \E e \in inflight, ok \in BOOLEAN : BodyRead(e, ok)
    \/ Tick

SpecSend == InitPage /\ [][NextSend]_vars

(***************************************************************************)
(* Claims about the page                                                   *)
(***************************************************************************)
\* the step is the start of an execution of sendRequest
SendStarts == nexec' = nexec + 1

\* C1: whenever validateRequest on the current draft returns isValid = false
\* in sendRequest, the execution ends at once with an error carrying the
\* validation errors, and no network call is issued for it.
C1_InvalidNeverFetches ==
    [][(SendStarts /\ ~ValidateDraft[draft, lastIndex].isValid) =>
          /\ error' = [kind |-> "validation",
                       errors |-> ValidateDraft[draft, lastIndex].errors]
          /\ lastDone' = [eid |-> nexec', outcome |-> "rejected"]
          /\ fetchLog' = fetchLog
          /\ inflight' = inflight
          /\ \A e \in inflight' : e.eid # nexec']_vars

\* an execution was rejected by validation and no network call has been issued
C1_Witness ==
    /\ lastDone = [eid |-> 1, outcome |-> "rejected"]
    /\ error.kind = "validation"
    /\ error.errors # <<>>
    /\ fetchLog = <<>>
    /\ inflight = {}

\* the draft carries a match of an injection pattern where the validator looks
DraftHasInjection(d) ==
    \/ HasInjection(d.url)
    \/ \E i \in 1..Len(d.headers) :
          /\ d.headers[i].key # "" /\ d.headers[i].value # <<>>
          /\ HasInjection(d.headers[i].value)
    \/ d.method \in {"POST", "PUT", "PATCH"} /\ HasInjection(d.body)

\* C3: no network call is ever issued for a request whose URL, header value
\* or body (for POST/PUT/PATCH) matches an injection pattern, whatever edits,
\* renders and sends came before.
C3_NoFetchForInjection ==
    [][fetchLog' # fetchLog => ~DraftHasInjection(draft)]_vars

\* the network calls issued in the span of windowMs that starts with call i
CallsInWindowFrom(i) ==
    {j \in i..Len(fetchLog) : fetchLog[j] - fetchLog[i] < WindowMs}

\* C7: the page issues at most maxRequests network calls within any span of
\* windowMs, across re-renders of the page component.
C7_PageWindowCap ==
    \A i \in 1..Len(fetchLog) : Cardinality(CallsInWindowFrom(i)) <= PageMaxRequests

\* C9: every execution ends either with the response of this execution held
\* and error null, or with error set and no response held.
C9_OneOutcome ==
    [][lastDone' # lastDone =>
          IF lastDone'.outcome = "completed"
          THEN response'.eid = lastDone'.eid /\ error' = NoError
          ELSE error' # NoError /\ response' = NoResponse]_vars

\* C10: saveRequest is called exactly once by each execution that received an
\* HTTP response, of any status, and obtained its body; an execution that ends
\* in validation rejection, rate limiting, timeout, network failure or decode
\* failure calls it not at all.
C10_SaveOncePerResponse ==
    [][saveCalls' = saveCalls +
          (IF lastDone' # lastDone /\ lastDone'.outcome = "completed" THEN 1 ELSE 0)]_vars

\* two executions got a response, the later one with status 500, and both
\* were saved
C10_Witness ==
    /\ lastDone = [eid |-> 2, outcome |-> "completed"]
    /\ response.eid = 2
    /\ response.status = 500
    /\ saveCalls = 2

\* the executions in flight, by number
InflightIds == {e.eid : e \in inflight}

\* C11: an execution whose fetch has not returned when the 30 s timer is due
\* is aborted and ends with the timeout error, and the clock does not pass a
\* due timer; an execution that has ended is never handled again: the step
\* that aborts it sets no response and saves nothing, a response is only ever
\* set by an execution still in flight, and no execution re-enters flight.
C11_TimeoutCancels ==
    [][/\ \A e \in inflight :
             (/\ e.pc = "fetch"
              /\ now - e.start >= TimeoutMs
              /\ e.eid \notin {x.eid : x \in inflight'}
              /\ lastDone' = [eid |-> e.eid, outcome |-> "timedOut"])
             => /\ error' = [kind |-> "timeout"]
                /\ response' = response
                /\ saveCalls' = saveCalls
                /\ loading' = FALSE
       /\ now' # now =>
             \A e \in inflight : e.pc = "fetch" => now' - e.start <= TimeoutMs
       /\ response' # response => response'.eid \in InflightIds
       /\ {x.eid : x \in inflight'} \subseteq InflightIds \cup {nexec + 1}]_vars

\* the second execution was aborted by its timer: the timeout error is set,
\* the response and the history entry of the first execution are all there is
C11_Witness ==
    /\ lastDone = [eid |-> 2, outcome |-> "timedOut"]
    /\ error = [kind |-> "timeout"]
    /\ response.eid = 1
    /\ saveCalls = 1
    /\ inflight = {}

(***************************************************************************)
(* Direct calls of processTripleBackticks (specification SpecPreprocess)   *)
(***************************************************************************)
\* the characters of a fenced text: a letter, the five characters the code
\* escapes, a control character it does not escape (form feed), and the
\* letter n, which follows a backslash in an escape sequence
ContentChars == {"x", "\\", "\"", "<LF>", "<CR>", "<TAB>", "<FF>", "n"}

\* the texts without a fence, up to MaxContentLen characters
Contents == UNION {[1..n -> ContentChars] : n \in 0..MaxContentLen}

SmallContents == { <<>>, <<"x">>, <<"\\", "n">>, <<"\"">> }

\* the bodies processTripleBackticks is called with: without a fence, with one
\* fenced region, with one fence that is not closed, and with two regions
\* followed by nothing, by a third fence, or by a third fence and text
PreInputs ==
    Contents
    \cup {a \o <<Fence>> \o c \o <<Fence>> \o b : a, b \in {<<>>, <<"x">>}, c \in Contents}
    \cup {<<Fence>> \o c : c \in SmallContents}
    \cup {c \o <<Fence>> : c \in SmallContents}
    \cup {<<Fence>> \o c1 \o <<Fence>> \o m \o <<Fence>> \o c2 \o <<Fence>> \o t :
            c1, c2 \in SmallContents, m \in {<<>>, <<"x">>},
            t \in {<<>>, <<Fence>>, <<Fence, "x">>}}

InitPreprocess ==
    /\ lastIndex = FreshPatterns
    /\ production = FALSE
    /\ IdleValidate
    /\ limiter = NewRateLimiter(LimMaxRequests, WindowMs)
    /\ now = 0
    /\ IdleLimiterLog
    /\ IdlePage
    /\ pcall \in {[NoPCall EXCEPT !.input = jsonString] : jsonString \in PreInputs}
    /\ wire = NoWire
    /\ IdleHistory
    /\ IdleDraft

\* processTripleBackticks(body) on the body the user typed
CallProcessTripleBackticks ==
    /\ pcall.fn = "none"
    /\ pcall' = [fn |-> "processTripleBackticks", input |-> pcall.input,
                 output |-> processTripleBackticks(pcall.input), source |-> "draft"]
    /\ UNCHANGED <<valVars, limVars, pageVars, wire, histVars, draftVars>>

\* setBody(processedBody) has written the result back into the draft, and
\* the next sendRequest processes that draft
ProcessWrittenBack ==
    /\ pcall.fn = "processTripleBackticks"
    /\ pcall' = [fn |-> "processTripleBackticks", input |-> pcall.output,
                 output |-> processTripleBackticks(pcall.output), source |-> "writtenBack"]
    /\ UNCHANGED <<valVars, limVars, pageVars, wire, histVars, draftVars>>

NextPreprocess ==
    \/ CallProcessTripleBackticks
    \/ ProcessWrittenBack

SpecPreprocess == InitPreprocess /\ [][NextPreprocess]_vars

(***************************************************************************)
(* Claims about processTripleBackticks                                     *)
(***************************************************************************)
\* s has a fence and a later fence that closes it
HasFencePair(s) == NextFence(s, 0) # 0 /\ NextFence(s, NextFence(s, 0)) # 0

\* the text before the first fenced region of s, its content, and the text
\* behind its closing fence
FirstRegion(s) ==
    [pre |-> SubSeq(s, 1, NextFence(s, 0) - 1),
     content |-> SubSeq(s, NextFence(s, 0) + 1, NextFence(s, NextFence(s, 0)) - 1),
     rest |-> SubSeq(s, NextFence(s, NextFence(s, 0)) + 1, Len(s))]

\* C16: the result of processTripleBackticks on a body with a fenced region
\* is the text before the region, a JSON string literal that decodes to the
\* content of the region, and the result for the text behind the region on
\* its own, for every content.
C16_RegionBecomesLiteral ==
    (pcall.fn = "processTripleBackticks" /\ HasFencePair(pcall.input)) =>
        LET p == FirstRegion(pcall.input)
            restOut == processTripleBackticks(p.rest)
            out == pcall.output
        IN /\ Len(out) >= Len(p.pre) + Len(restOut)
           /\ SubSeq(out, 1, Len(p.pre)) = p.pre
           /\ SubSeq(out, Len(out) - Len(restOut) + 1, Len(out)) = restOut
           /\ JsonParseString(SubSeq(out, Len(p.pre) + 1, Len(out) - Len(restOut)))
                = [ok |-> TRUE, value |-> p.content]

\* C17: processing a processed body again changes nothing, and a body without
\* a complete fence pair is returned as it is.
C17_Idempotent ==
    pcall.fn = "processTripleBackticks" =>
        /\ processTripleBackticks(pcall.output) = pcall.output
        /\ pcall.source = "writtenBack" => pcall.output = pcall.input
        /\ ~HasFencePair(pcall.input) => pcall.output = pcall.input

\* the body with a fenced line feed was processed and written back, and the
\* next send has processed the written-back body
C17_Witness ==
    /\ pcall.source = "writtenBack"
    /\ pcall.input = <<"x", "\"", "\\", "n", "\"">>
    /\ pcall.output = pcall.input

(***************************************************************************)
(* Claims about the request handed to fetch                                *)
(***************************************************************************)
\* C12: in every execution that reaches fetch, the body that was handed to
\* validateRequest is the pre-processed body of the draft, and so is the body
\* of the request.
C12_ProcessedBodyValidated ==
    wire # NoWire =>
        /\ wire.validated = processTripleBackticks(wire.draft.body)
        /\ wire.hasBody => wire.body = processTripleBackticks(wire.draft.body)

\* C13: a request that passed the validator carries the upper-cased method of
\* the draft, and it has a body exactly when the upper-cased method is POST,
\* PUT or PATCH and the pre-processed body is not empty.
C13_UpperCasedMethodDecides ==
    wire # NoWire =>
        /\ wire.method = toUpperCase(wire.draft.method)
        /\ wire.hasBody <=>
              /\ toUpperCase(wire.draft.method) \in BodyMethods
              /\ processTripleBackticks(wire.draft.body) # <<>>

\* C14: the header map of a request has exactly the keys of the headers of
\* the draft whose key and value are both non-empty, and the value of a key
\* is the value of the first such header in the list.
C14_FirstHeaderWins ==
    wire # NoWire =>
        LET hs == wire.draft.headers
            Populated == {i \in 1..Len(hs) : hs[i].key # "" /\ hs[i].value # <<>>}
        IN /\ {kv[1] : kv \in wire.headers} = {hs[i].key : i \in Populated}
           /\ \A kv \in wire.headers :
                 \E i \in Populated :
                    /\ hs[i].key = kv[1]
                    /\ hs[i].value = kv[2]
                    /\ \A j \in Populated : j < i => hs[j].key # kv[1]

(***************************************************************************)
(* Claims about the response body                                          *)
(***************************************************************************)
\* the execution with identifier eid ends in this step with the given outcome
EndsAs(eid, outcome) == lastDone' = [eid |-> eid, outcome |-> outcome] /\ lastDone' # lastDone

\* C15: a response whose content-type contains application/json is awaited
\* as JSON and one that otherwise contains text/ as text; when the read
\* succeeds the response is recorded with that kind of data, and when it
\* fails the execution fails with no response recorded and nothing saved;
\* any other response, one without a content-type included, completes at
\* once with the binary placeholder as data.
C15_ContentTypeDecides ==
    [][\A e \in inflight :
          LET ct == IF e.pc = "body" THEN e.contentType ELSE response'.contentType
              isJson == ct \in {"application/json", "application/json; charset=utf-8"}
              isText == ~isJson /\ ct \in {"text/plain", "text/html"}
              after == {x \in inflight' : x.eid = e.eid}
          IN /\ (e.pc = "fetch" /\ \E x \in after : x.pc = "body") =>
                   \A x \in after :
                      /\ x.contentType \in {"application/json",
                                            "application/json; charset=utf-8",
                                            "text/plain", "text/html"}
                      /\ response' = response /\ lastDone' = lastDone
             /\ (e.pc = "fetch" /\ EndsAs(e.eid, "completed")) =>
                   /\ ~isJson /\ ~isText
                   /\ response'.eid = e.eid /\ response'.data = "binary"
                   /\ requestSuccess'
             /\ (e.pc = "body" /\ EndsAs(e.eid, "completed")) =>
                   /\ isJson \/ isText
                   /\ response'.eid = e.eid
                   /\ response'.contentType = ct
                   /\ response'.data = IF isJson THEN "json" ELSE "text"
                   /\ requestSuccess'
             /\ (e.pc = "body" /\ EndsAs(e.eid, "decodeFailed")) =>
                   /\ response' = response
                   /\ saveCalls' = saveCalls
                   /\ error' # NoError]_vars

\* the first execution completed with the binary placeholder for a response
\* without a content-type; the second one failed to decode its JSON body and
\* left the response of the first in place
C15_Witness ==
    /\ response = [eid |-> 1, status |-> 200, contentType |-> "", data |-> "binary"]
    /\ lastDone = [eid |-> 2, outcome |-> "decodeFailed"]
    /\ error = [kind |-> "message"]
    /\ saveCalls = 1

(***************************************************************************)
(* The request history (specification SpecHistory)                         *)
(***************************************************************************)
LocalUrl == <<"https:", "//127.0.0.1">>

\* the requests saveRequest is called with
HistRequests ==
    { [method |-> m, url |-> u, headers |-> DefaultHeaders, body |-> <<>>] :
        m \in {"GET", "POST"}, u \in {CleanUrl, LocalUrl} }

\* an entry of an exported file
Saved(id, method, url, timestamp) ==
    [id |-> id, method |-> method, url |-> url, headers |-> DefaultHeaders,
     body |-> <<>>, timestamp |-> timestamp]

STORAGE_VERSION == 1
SAVE_DEBOUNCE_MS == 300

\* granularity of the clock of the save timer: half the debounce delay
HistTickMs == SAVE_DEBOUNCE_MS \div 2

\* A text handed to JSON.parse, by what JSON.parse makes of it: "text" is not
\* JSON; "value" is JSON that is neither an array nor an object with an array
\* under requests (null, 5, {"a":1}); "array" is a bare array; "envelope" is
\* an object with an array under requests, its version 0 when it has none.
\* JSON.stringify followed by JSON.parse gives back an envelope of entries
\* made of strings, finite numbers and arrays as it was.
NotJson == [form |-> "text", version |-> 0, requests |-> <<>>]

NoEnvelope == [form |-> "value", version |-> 0, requests |-> <<>>]

BareArray(list) == [form |-> "array", version |-> 0, requests |-> list]

Envelope(version, list) == [form |-> "envelope", version |-> version, requests |-> list]

\* the array [1, 2, 3]
NonRequests == << [json |-> 1], [json |-> 2], [json |-> 3] >>

\* two entries, the oldest first
OldestFirst == << Saved(101, "GET", CleanUrl, 1), Saved(102, "POST", CleanUrl, 2) >>

\* the same entries, the newest first
NewestFirst == << Saved(102, "POST", CleanUrl, 2), Saved(101, "GET", CleanUrl, 1) >>

\* one entry more than the cap, newest first
OverCap ==
    [i \in 1..(MAX_REQUESTS + 1) |-> Saved(110 + i, "GET", LocalUrl, MAX_REQUESTS + 1 - i)]

\* an entry without an id before two entries with the same id, method and URL
Unclean ==
    << [method |-> "GET", url |-> CleanUrl, headers |-> DefaultHeaders,
        body |-> <<>>, timestamp |-> 0],
       Saved(101, "GET", CleanUrl, 1), Saved(101, "GET", CleanUrl, 0) >>

\* Date.now() when the page is opened: no entry above is later
HistEpoch == MAX_REQUESTS

\* an entry exported where the clock is ahead of every Date.now() here
Ahead == << Saved(120, "GET", LocalUrl, HistEpoch + HistMaxSaves + 1) >>

\* the number JSON.parse makes of 1e999, which is Infinity; it stands here as
\* a number greater than every timestamp
Infinity == HistEpoch + HistMaxSaves + 2

\* JSON.stringify on an entry of the list: a number that is not finite is
\* written as null, which is no number for the type test, so the entry is
\* left without a timestamp
StringifiedEntry(req) ==
    IF "timestamp" \in DOMAIN req /\ req.timestamp = Infinity
    THEN [field \in DOMAIN req \ {"timestamp"} |-> req[field]]
    ELSE req

\* the requests array in the text JSON.stringify makes of an envelope
JsonRequests(list) == [i \in 1..Len(list) |-> StringifiedEntry(list[i])]

\* an entry whose timestamp is written 1e999
Overflowing == << Saved(130, "GET", LocalUrl, Infinity) >>

\* the texts importHistory is called with
ImportFiles ==
    { Envelope(STORAGE_VERSION, OldestFirst), Envelope(STORAGE_VERSION, OverCap),
      Envelope(0, Unclean), Envelope(STORAGE_VERSION, Ahead),
      NotJson, NoEnvelope, BareArray(NewestFirst) }

\* what localStorage holds under STORAGE_KEY when the page is opened
PersistedValues ==
    { NoStorage, NotJson, NoEnvelope, BareArray(NonRequests), BareArray(NewestFirst),
      Envelope(0, NewestFirst), Envelope(STORAGE_VERSION + 1, NewestFirst),
      Envelope(STORAGE_VERSION, Unclean) }

LoadFailed == "Failed to load request history. Starting fresh."
SaveFailed == "Failed to save request history."
ClearFailed == "Failed to clear request history."

InitHistory ==
    /\ lastIndex = FreshPatterns
    /\ production = FALSE
    /\ IdleValidate
    /\ limiter = NewRateLimiter(LimMaxRequests, WindowMs)
    /\ now = HistEpoch
    /\ IdleLimiterLog
    /\ IdlePage
    /\ pcall = NoPCall
    /\ wire = NoWire
    /\ IdleDraft
    /\ IdleHook
    /\ storage \in PersistedValues

\* parsedData of loadRequests: a bare array is taken for the requests of an
\* envelope of the current version; a text that is not JSON, and JSON without
\* an array under requests, end in the outer catch
ParsedData(saved) ==
    CASE saved.form = "array" ->
             [ok |-> TRUE, version |-> STORAGE_VERSION, requests |-> saved.requests]
      [] saved.form = "envelope" ->
             [ok |-> TRUE, version |-> saved.version, requests |-> saved.requests]
      [] OTHER -> [ok |-> FALSE, version |-> 0, requests |-> <<>>]

\* a variant of the test of importHistory that takes a bare array as
\* loadRequests does
ImportData_likeLoad(jsonData) == ParsedData(jsonData)

\* data of importHistory: JSON.parse throws on a text that is not JSON, and
\* "Invalid import format" is thrown unless data.requests is an array
ImportData(jsonData) ==
    IF jsonData.form = "envelope"
    THEN [ok |-> TRUE, version |-> jsonData.version, requests |-> jsonData.requests]
    ELSE [ok |-> FALSE, version |-> 0, requests |-> <<>>]

\* "If data was cleaned up or migrated, save it back"
SavesBack(parsedData, validRequests) ==
    \/ Len(validRequests) # Len(parsedData.requests)
    \/ parsedData.version # STORAGE_VERSION

\* a variant that leaves the timer running that is already set
saveToStorage_keepsTimer(requestsToSave) ==
    [armed |-> TRUE, requests |-> requestsToSave,
     elapsed |-> IF pendingSave.armed THEN pendingSave.elapsed ELSE 0]

\* saveToStorage(requestsToSave): the timer is set anew
saveToStorage(requestsToSave) ==
    [armed |-> TRUE, requests |-> requestsToSave, elapsed |-> 0]

\* the mount effect: loadRequests(); getItemOk, setItemOk and removeItemOk
\* tell whether the call of localStorage returns or throws
LoadRequests(getItemOk, setItemOk, removeItemOk) ==
    /\ ~loaded
    /\ loaded' = TRUE
    /\ IF getItemOk /\ storage = NoStorage
       THEN /\ historyError' = NoHistoryError
            /\ threw' = "none"
            /\ UNCHANGED <<requests, storage>>
       ELSE \E parsedData \in {ParsedData(storage)} :
            \E validRequests \in {LoadedList(parsedData.requests)} :
               IF /\ getItemOk
                  /\ parsedData.ok
                  /\ SavesBack(parsedData, validRequests) => setItemOk
               THEN /\ requests' = validRequests
                    /\ storage' = IF SavesBack(parsedData, validRequests)
                                  THEN Envelope(STORAGE_VERSION, JsonRequests(validRequests))
                                  ELSE storage
                    /\ historyError' = NoHistoryError
                    /\ threw' = "none"
               ELSE /\ requests' = <<>>
                    /\ storage' = IF removeItemOk THEN NoStorage ELSE storage
                    /\ historyError' = LoadFailed
                    /\ threw' = IF ~getItemOk THEN "getItem"
                                ELSE IF parsedData.ok THEN "setItem"
                                ELSE IF ~removeItemOk THEN "removeItem"
                                ELSE "none"
    /\ savedRun' = <<>>
    /\ importOutcome' = NoImport
    /\ UNCHANGED <<pendingSave, nextId, cleared, valVars, limVars, pageVars, pcall,
                   wire, draftVars, panel>>

\* saveRequest(requestData); Date.now() is later than at the call before:
\* entries with equal timestamps come from imported files only
saveRequest(requestData) ==
    /\ loaded
    /\ nextId <= HistMaxSaves
    /\ now' = now + 1
    /\ \E newRequest \in {[id |-> nextId, method |-> requestData.method,
                           url |-> requestData.url, headers |-> requestData.headers,
                           body |-> requestData.body, timestamp |-> now + 1]} :
       \E updated \in {SavedList(requests, newRequest)} :
          /\ requests' = updated
          /\ pendingSave' = saveToStorage(updated)
          /\ savedRun' = Append(savedRun, newRequest)
    /\ nextId' = nextId + 1
    /\ importOutcome' = NoImport
    /\ cleared' = FALSE
    /\ threw' = "none"
    /\ UNCHANGED <<storage, loaded, historyError, valVars, limiter, lcall, grants,
                   pageVars, pcall, wire, draftVars, panel>>

deleteRequest(id) ==
    /\ loaded
    /\ \E updated \in {SelectSeq(requests, LAMBDA req : req.id # id)} :
          /\ requests' = updated
          /\ pendingSave' = saveToStorage(updated)
    /\ savedRun' = <<>>
    /\ importOutcome' = NoImport
    /\ threw' = "none"
    /\ UNCHANGED <<storage, loaded, nextId, historyError, cleared, valVars, limVars,
                   pageVars, pcall, wire, draftVars, panel>>

\* clearHistory leaves a timer of saveToStorage running
clearHistory(removeItemOk) ==
    /\ loaded
    /\ requests' = <<>>
    /\ storage' = IF removeItemOk THEN NoStorage ELSE storage
    /\ historyError' = IF removeItemOk THEN NoHistoryError ELSE ClearFailed
    /\ savedRun' = <<>>
    /\ importOutcome' = NoImport
    /\ cleared' = TRUE
    /\ threw' = IF removeItemOk THEN "none" ELSE "removeItem"
    /\ UNCHANGED <<pendingSave, loaded, nextId, valVars, limVars, pageVars, pcall,
                   wire, draftVars, panel>>

\* importHistory(jsonData): JSON.parse throws, or data.requests is not an
\* array, and the catch throws to the caller before anything is set
importHistory(jsonData) ==
    /\ loaded
    /\ IF ImportData(jsonData).ok
       THEN \E validRequests \in {ImportedList(ImportData(jsonData).requests)} :
               /\ requests' = validRequests
               /\ pendingSave' = saveToStorage(validRequests)
               /\ historyError' = NoHistoryError
               /\ importOutcome' = [called |-> TRUE, thrown |-> FALSE,
                                    count |-> Len(validRequests)]
               /\ savedRun' = <<>>
               /\ cleared' = FALSE
       ELSE /\ importOutcome' = [called |-> TRUE, thrown |-> TRUE, count |-> 0]
            /\ UNCHANGED <<requests, pendingSave, historyError, savedRun, cleared>>
    /\ threw' = "none"
    /\ UNCHANGED <<storage, loaded, nextId, valVars, limVars, pageVars, pcall, wire,
                   draftVars, panel>>

\* time passes while a timer of saveToStorage runs, in either instance of
\* the hook; a timer that is due fires before the clock goes on
HistTick ==
    /\ pendingSave.armed \/ panel.pendingSave.armed
    /\ pendingSave.armed => pendingSave.elapsed < SAVE_DEBOUNCE_MS
    /\ panel.pendingSave.armed => panel.pendingSave.elapsed < SAVE_DEBOUNCE_MS
    /\ pendingSave' = IF pendingSave.armed
                      THEN [pendingSave EXCEPT !.elapsed = @ + HistTickMs]
                      ELSE pendingSave
    /\ panel' = IF panel.pendingSave.armed
                THEN [panel EXCEPT !.pendingSave.elapsed = @ + HistTickMs]
                ELSE panel
    /\ importOutcome' = NoImport
    /\ threw' = "none"
    /\ UNCHANGED <<requests, storage, loaded, nextId, savedRun, historyError,
                   cleared, valVars, limVars, pageVars, pcall, wire, draftVars>>

\* the timer of saveToStorage fires after SAVE_DEBOUNCE_MS
FlushSave(setItemOk) ==
    /\ pendingSave.armed
    /\ pendingSave.elapsed = SAVE_DEBOUNCE_MS
    /\ storage' = IF setItemOk
                  THEN Envelope(STORAGE_VERSION, JsonRequests(pendingSave.requests))
                  ELSE storage
    /\ historyError' = IF setItemOk THEN NoHistoryError ELSE SaveFailed
    /\ pendingSave' = NoPending
    /\ importOutcome' = NoImport
    /\ threw' = IF setItemOk THEN "none" ELSE "setItem"
    /\ UNCHANGED <<requests, loaded, nextId, savedRun, cleared, valVars, limVars,
                   pageVars, pcall, wire, draftVars, panel>>

\* the page is loaded again: the hook is unmounted (its cleanup clears the
\* timer) and mounted with an empty list and no error
Reload ==
    /\ loaded
    /\ requests' = <<>>
    /\ loaded' = FALSE
    /\ pendingSave' = NoPending
    /\ savedRun' = <<>>
    /\ historyError' = NoHistoryError
    /\ importOutcome' = NoImport
    /\ threw' = "none"
    /\ UNCHANGED <<storage, nextId, cleared, valVars, limVars, pageVars, pcall, wire,
                   draftVars, panel>>

\* localStorage works
NextHistory ==
    \/ LoadRequests(TRUE, TRUE, TRUE)
    \/ \E requestData \in HistRequests : saveRequest(requestData)
    \/ \E i \in 1..Len(requests) : deleteRequest(requests[i].id)
    \/ clearHistory(TRUE)
    \/ \E jsonData \in ImportFiles : importHistory(jsonData)
    \/ HistTick
    \/ FlushSave(TRUE)
    \/ Reload

SpecHistory == InitHistory /\ [][NextHistory]_vars

\* every call of localStorage returns or throws
NextHistoryFaults ==
    \/ \E getItemOk, setItemOk, removeItemOk \in BOOLEAN :
          LoadRequests(getItemOk, setItemOk, removeItemOk)
    \/ \E requestData \in HistRequests : saveRequest(requestData)
    \/ \E i \in 1..Len(requests) : deleteRequest(requests[i].id)
    \/ \E removeItemOk \in BOOLEAN : clearHistory(removeItemOk)
    \/ \E jsonData \in ImportFiles : importHistory(jsonData)
    \/ HistTick
    \/ \E setItemOk \in BOOLEAN : FlushSave(setItemOk)
    \/ Reload

SpecHistoryFaults == InitHistory /\ [][NextHistoryFaults]_vars

(***************************************************************************)
(* Claims about the request history                                        *)
(***************************************************************************)
SamePair(a, b) == a.method = b.method /\ a.url = b.url

\* C18: the history never holds more than MAX_REQUESTS entries; after
\* MAX_REQUESTS + 1 calls of saveRequest in a row with pairwise distinct
\* method and URL it holds exactly the entries of the last MAX_REQUESTS
\* calls, newest first, and the entry that was dropped is not newer than any
\* entry that is left.
C18_CapAndOldestEvicted ==
    /\ Len(requests) <= MAX_REQUESTS
    /\ LET n == Len(savedRun)
           run == (n - MAX_REQUESTS)..n
       IN (/\ n >= MAX_REQUESTS + 1
           /\ \A i, j \in run : i # j => ~SamePair(savedRun[i], savedRun[j]))
          => /\ Len(requests) = MAX_REQUESTS
             /\ \A i \in 1..MAX_REQUESTS : requests[i] = savedRun[n + 1 - i]
             /\ \A i \in 1..Len(requests) :
                   /\ requests[i] # savedRun[n - MAX_REQUESTS]
                   /\ savedRun[n - MAX_REQUESTS].timestamp <= requests[i].timestamp

\* MAX_REQUESTS + 1 requests with distinct method and URL were saved onto an
\* imported history, and the first of them is gone
C18_Witness ==
    /\ Len(savedRun) = MAX_REQUESTS + 1
    /\ \A i, j \in 1..Len(savedRun) : i # j => ~SamePair(savedRun[i], savedRun[j])
    /\ Len(requests) = MAX_REQUESTS
    /\ \A i \in 1..Len(requests) : requests[i].id # savedRun[1].id
    /\ savedRun[1].timestamp < requests[1].timestamp

\* C19: right after saveRequest(d) the list has exactly one entry with the
\* method and URL of d, it is the entry just created and the first of the
\* list, and the other entries are entries of the list before the call, in
\* the order they had.
C19_SaveDedupsAndPrepends ==
    [][nextId' = nextId + 1 =>
          LET d == savedRun'[Len(savedRun')]
              others == SelectSeq(requests, LAMBDA req : ~SamePair(req, d))
          IN /\ requests' # <<>>
             /\ Head(requests').id = nextId
             /\ Head(requests').timestamp = now'
             /\ SamePair(Head(requests'), d)
             /\ Cardinality({i \in 1..Len(requests') : SamePair(requests'[i], d)}) = 1
             /\ Len(Tail(requests')) <= Len(others)
             /\ Tail(requests') = SubSeq(others, 1, Len(Tail(requests')))]_vars

\* a request was saved onto an imported history that held its method and URL
\* twice: the new entry is first and the only one with that method and URL
C19_Witness ==
    /\ Len(savedRun) = 1
    /\ requests = savedRun
    /\ storage.form = "envelope" /\ Len(storage.requests) = 2
    /\ \A i \in 1..2 : SamePair(storage.requests[i], savedRun[1])

\* C20: the history list is ordered newest first: the timestamps do not
\* increase from the first entry to the last.
C20_NewestFirst ==
    \A i, j \in 1..Len(requests) :
        i < j => requests[i].timestamp >= requests[j].timestamp

\* C21: no two entries of the history list have the same id.
C21_UniqueIds ==
    \A i, j \in 1..Len(requests) : i # j => requests[i].id # requests[j].id

\* an entry with the six fields of a SavedRequest
HasShape(req) ==
    \A field \in {"id", "method", "url", "headers", "body", "timestamp"} :
        field \in DOMAIN req

\* C22: the mount load never fails, whatever is persisted: with no key the
\* list is empty and no error is set; with a value that is not JSON, or JSON
\* that is neither an envelope nor an array, the list is empty; of an array
\* or an envelope exactly the entries with the shape of a request are kept,
\* up to the cap, and no error is set; a saveRequest after the load puts its
\* entry first and arms the timer with the new list, and the timer writes
\* that list as an envelope of the current version.
C22_LoadNeverFails ==
    /\ [](~loaded => ENABLED LoadRequests(TRUE, TRUE, TRUE))
    /\ [][/\ (~loaded /\ loaded') =>
              /\ \A i \in 1..Len(requests') :
                    /\ HasShape(requests'[i])
                    /\ \E j \in 1..Len(storage.requests) : storage.requests[j] = requests'[i]
              /\ storage = NoStorage => requests' = <<>> /\ historyError' = NoHistoryError
              /\ storage.form \in {"text", "value"} => requests' = <<>>
              /\ storage.form \in {"array", "envelope"} =>
                    /\ historyError' = NoHistoryError
                    /\ LET valid == Cardinality({j \in 1..Len(storage.requests) :
                                                   HasShape(storage.requests[j])})
                       IN Len(requests') = IF valid < MAX_REQUESTS THEN valid
                                           ELSE MAX_REQUESTS
          /\ (nextId' = nextId + 1) =>
              /\ Head(requests') = savedRun'[Len(savedRun')]
              /\ pendingSave' = [armed |-> TRUE, requests |-> requests', elapsed |-> 0]
          /\ (pendingSave.armed /\ ~pendingSave'.armed /\ loaded') =>
              storage' = Envelope(STORAGE_VERSION, pendingSave.requests)]_vars

\* a request was saved after a load that found a value it could not parse
C22_Witness ==
    /\ historyError = LoadFailed
    /\ storage = NoStorage
    /\ Len(savedRun) = 1
    /\ requests = savedRun
    /\ pendingSave.armed /\ pendingSave.requests = requests

\* C23: when the mount load finds a bare array, an envelope without the
\* current version, or a list with an entry that fails the shape test, then
\* right after the load the persisted value is an envelope of the current
\* version whose requests are the list in memory.
C23_CleanedFormPersisted ==
    [][(/\ ~loaded /\ loaded'
        /\ \/ storage.form = "array"
           \/ /\ storage.form = "envelope"
              /\ \/ storage.version # STORAGE_VERSION
                 \/ \E j \in 1..Len(storage.requests) : ~HasShape(storage.requests[j]))
       => storage' = Envelope(STORAGE_VERSION, requests')]_vars

\* C24: once the timer has written the list that a saveRequest(d) left, a
\* fresh load of the persisted value gives a list whose first entry has the
\* method, URL, headers and body of d, with an id and a timestamp.
C24_RoundTrip ==
    (savedRun # <<>> /\ ~pendingSave.armed) =>
        \E parsedData \in {ParsedData(storage)} :
        \E fresh \in {LoadedList(parsedData.requests)} :
        \E d \in {savedRun[Len(savedRun)]} :
            /\ parsedData.ok
            /\ fresh # <<>>
            /\ HasShape(Head(fresh))
            /\ Head(fresh).method = d.method
            /\ Head(fresh).url = d.url
            /\ Head(fresh).headers = d.headers
            /\ Head(fresh).body = d.body

\* a step of saveRequest (it takes an id), of an importHistory that does
\* not throw, or of deleteRequest (it changes the list and is not enabled
\* after clearHistory)
HistoryMutation ==
    /\ loaded /\ loaded'
    /\ \/ nextId' # nextId
       \/ importOutcome'.called /\ ~importOutcome'.thrown
       \/ requests' # requests /\ ~cleared'

\* C25: every save, delete and import changes the list in memory at the
\* call, writes nothing at the call, and leaves one timer, set anew with the
\* list as it stands after the call; nothing is written under the key of a
\* mounted history except by that timer, SAVE_DEBOUNCE_MS after the last
\* call, and it writes the list of the last call and leaves no timer.
C25_OneWriteAfterTheBurst ==
    /\ [](pendingSave.armed => pendingSave.elapsed <= SAVE_DEBOUNCE_MS)
    /\ [][/\ HistoryMutation =>
              /\ pendingSave' = [armed |-> TRUE, requests |-> requests', elapsed |-> 0]
              /\ storage' = storage
          /\ (loaded /\ loaded' /\ storage' # storage /\ storage' # NoStorage) =>
              /\ pendingSave.armed
              /\ pendingSave.elapsed = SAVE_DEBOUNCE_MS
          /\ (loaded' /\ pendingSave.armed /\ ~pendingSave'.armed) =>
              /\ pendingSave.elapsed = SAVE_DEBOUNCE_MS
              /\ storage' = Envelope(STORAGE_VERSION, pendingSave.requests)]_vars

\* two requests were saved less than SAVE_DEBOUNCE_MS apart and the timer
\* of the second is due: nothing has been written so far
C25_Witness ==
    /\ Len(savedRun) = 2
    /\ requests = <<savedRun[2], savedRun[1]>>
    /\ storage = NoStorage
    /\ pendingSave = [armed |-> TRUE, requests |-> requests, elapsed |-> SAVE_DEBOUNCE_MS]

\* C26: from clearHistory until the next saveRequest or importHistory the
\* list in memory is empty and nothing is persisted: a write that was
\* scheduled before clearHistory does not happen afterwards.
C26_ClearIsFinal ==
    cleared => (requests = <<>> /\ storage = NoStorage)

\* C27: whichever call of localStorage throws, the mount load, clearHistory
\* and the save timer still complete, and no save, delete or import throws
\* because of it; the step in which a call threw leaves an error set; the
\* list in memory is what the operation makes of it (the entries read by a
\* load, the empty list after a clear, the list as it was when the timer
\* fails); and a write that succeeds sets the error to null.
C27_StorageFaultsContained ==
    /\ [](~loaded => \A g, w, r \in BOOLEAN : ENABLED LoadRequests(g, w, r))
    /\ [](loaded => \A r \in BOOLEAN : ENABLED clearHistory(r))
    /\ []((pendingSave.armed /\ pendingSave.elapsed = SAVE_DEBOUNCE_MS) =>
             \A w \in BOOLEAN : ENABLED FlushSave(w))
    /\ [][/\ threw' # "none" => historyError' # NoHistoryError
          /\ (~loaded /\ loaded' /\ threw' = "getItem") => requests' = <<>>
          /\ (~loaded /\ loaded' /\ threw' = "setItem") =>
                requests' = LoadedList(ParsedData(storage).requests)
          /\ (\E r \in BOOLEAN : clearHistory(r)) => requests' = <<>>
          /\ (\E w \in BOOLEAN : FlushSave(w)) =>
                /\ requests' = requests
                /\ threw' = "none" => historyError' = NoHistoryError
          /\ HistoryMutation =>
                /\ ~importOutcome'.thrown
                /\ pendingSave'.requests = requests']_vars

\* C28: importHistory of a text that is not JSON, or of JSON that is not an
\* object with an array under requests, throws to its caller, and the list
\* in memory, the pending write and the persisted value are as before.
C28_BadImportChangesNothing ==
    [][/\ \A jsonData \in ImportFiles :
             (jsonData.form # "envelope" /\ importHistory(jsonData)) =>
                importOutcome'.thrown
       /\ importOutcome'.thrown =>
             /\ requests' = requests
             /\ pendingSave' = pendingSave
             /\ storage' = storage]_vars

\* an import threw while the list was not empty, a value was persisted and
\* a write was pending for some time
C28_Witness ==
    /\ importOutcome.thrown
    /\ requests # <<>>
    /\ storage.form = "envelope"
    /\ pendingSave.armed /\ pendingSave.elapsed > 0

\* C29: importHistory of an envelope leaves in memory the list that the
\* mount load makes of the same envelope when it is the persisted value
\* (the entries with the shape of a request, newest first, up to the cap),
\* and returns the length of that list.
C29_ImportAgreesWithLoad ==
    [][\A jsonData \in ImportFiles :
          (jsonData.form = "envelope" /\ importHistory(jsonData)) =>
             \E fromLoad \in {LoadedList(ParsedData(jsonData).requests)} :
                /\ ~importOutcome'.thrown
                /\ requests' = fromLoad
                /\ importOutcome'.count = Len(fromLoad)]_vars

(***************************************************************************)
(* The draft store kept in a cookie                                        *)
(***************************************************************************)
\* the values the setters are called with
DraftValues(field) ==
    CASE field = "method" -> {"GET", "POST"}
      [] field = "url" -> {CleanUrl, LocalUrl}
      [] field = "headers" -> {<<>>, DefaultHeaders}
      [] field = "body" -> {<<>>, <<"hello">>}

\* a cookie whose text is not JSON
BadText == [present |-> TRUE, form |-> "text", value |-> DEFAULT_STATE]

\* a cookie whose text is JSON that fails the structure test ({"method":1})
BadShape == [present |-> TRUE, form |-> "value", value |-> DEFAULT_STATE]

\* what the cookie holds when the page is opened
PersistedDrafts ==
    { NoCookie, BadText, BadShape,
      [present |-> TRUE, form |-> "state",
       value |-> [method |-> "POST", url |-> CleanUrl, headers |-> <<>>,
                  body |-> <<"hello">>]] }

InitDraft ==
    /\ lastIndex = FreshPatterns
    /\ production = FALSE
    /\ IdleValidate
    /\ limiter = NewRateLimiter(LimMaxRequests, WindowMs)
    /\ now = 0
    /\ IdleLimiterLog
    /\ IdlePage
    /\ pcall = NoPCall
    /\ wire = NoWire
    /\ IdleHistory
    /\ IdleDraftHook
    /\ cookie \in PersistedDrafts
    /\ isLoaded = FALSE

\* the mount effect of the draft store: JSON.parse throws on a text that is
\* not JSON and the catch removes the cookie; a value that fails the
\* structure test is passed over
LoadState ==
    /\ ~isLoaded
    /\ isLoaded' = TRUE
    /\ CASE cookie.form = "state" ->
                /\ state' = cookie.value
                /\ lastSavedState' = cookie
                /\ UNCHANGED cookie
         [] cookie.form = "text" ->
                /\ cookie' = NoCookie
                /\ UNCHANGED <<state, lastSavedState>>
         [] OTHER -> UNCHANGED <<state, cookie, lastSavedState>>
    /\ UNCHANGED <<saveTimeout, valVars, limVars, pageVars, pcall, wire, histVars>>

\* debouncedSave(newState): the timer is set anew
debouncedSave(newState) == [armed |-> TRUE, newState |-> newState]

\* setMethod, setUrl, setHeaders, setBody: updateState with an updater that
\* replaces one field
updateState(field, value) ==
    /\ isLoaded
    /\ \E newState \in {[state EXCEPT ![field] = value]} :
          /\ state' = newState
          /\ saveTimeout' = debouncedSave(newState)
    /\ UNCHANGED <<cookie, lastSavedState, isLoaded, valVars, limVars, pageVars,
                   pcall, wire, histVars>>

\* saveStateImmediately(newState) leaves a timer of debouncedSave running
saveStateImmediately(newState) ==
    /\ isLoaded
    /\ state' = newState
    /\ cookie' = Stringified(newState)
    /\ lastSavedState' = Stringified(newState)
    /\ UNCHANGED <<saveTimeout, isLoaded>>

\* loadRequest(request) of the draft store, called with an entry of the
\* history or an example
loadCompleteRequest(request) ==
    /\ saveStateImmediately([method |-> request.method, url |-> request.url,
                             headers |-> request.headers, body |-> request.body])
    /\ UNCHANGED <<valVars, limVars, pageVars, pcall, wire, histVars>>

clearState ==
    /\ saveStateImmediately(DEFAULT_STATE)
    /\ UNCHANGED <<valVars, limVars, pageVars, pcall, wire, histVars>>

\* the timer of debouncedSave fires after DEBOUNCE_DELAY
DraftTimerFires ==
    /\ saveTimeout.armed
    /\ IF Stringified(saveTimeout.newState) # lastSavedState
       THEN /\ cookie' = Stringified(saveTimeout.newState)
            /\ lastSavedState' = Stringified(saveTimeout.newState)
       ELSE UNCHANGED <<cookie, lastSavedState>>
    /\ saveTimeout' = NoSaveTimeout
    /\ UNCHANGED <<state, isLoaded, valVars, limVars, pageVars, pcall, wire, histVars>>

NextDraft ==
    \/ LoadState
    \/ \E field \in {"method", "url", "headers", "body"} :
          \E value \in DraftValues(field) : updateState(field, value)
    \/ \E request \in HistRequests : loadCompleteRequest(request)
    \/ clearState
    \/ DraftTimerFires

SpecDraft == InitDraft /\ [][NextDraft]_vars

\* C30: every value written to the cookie is the draft in memory at the
\* moment of the write, and when no timer is pending a cookie that holds a
\* draft holds the draft in memory.
C30_PersistedDraftIsCurrent ==
    /\ []((isLoaded /\ ~saveTimeout.armed /\ cookie.form = "state") => cookie.value = state)
    /\ [][(cookie' # cookie /\ cookie'.present) => cookie' = Stringified(state')]_vars

\* C31: when the mount effect of the draft store finds a cookie that is not
\* JSON or that fails the structure test, the cookie is removed and the
\* draft in memory is the default draft; the effect completes whatever the
\* cookie holds.
C31_CorruptDraftDiscarded ==
    /\ [](~isLoaded => ENABLED LoadState)
    /\ [][(~isLoaded /\ isLoaded' /\ cookie.form \in {"text", "value"}) =>
             (cookie' = NoCookie /\ state' = DEFAULT_STATE)]_vars

\* C32: a setter of the draft store changes the draft in memory and writes
\* nothing to the cookie in the call.
C32_SetDefersTheWrite ==
    [][draft' # draft => cookie' = cookie]_vars

\* The page under the scheduling the browser guarantees: the clock goes on
\* and a timer that is due fires.  Whether and when the server answers, and
\* whether the body of a response ever ends, is up to the server.
SpecFair ==
    /\ InitPage
    /\ [][Next]_vars
    /\ WF_vars(Tick)
    /\ WF_vars(\E e \in inflight : TimeoutFires(e))

\* the execution eid is in flight and, while it waits for fetch, its timer
\* comes due within the span of the clock
Sending(eid) ==
    \E e \in inflight :
       /\ e.eid = eid
       /\ e.pc = "fetch" => e.start + TimeoutMs <= MaxTicks * TickMs

\* C33: every execution that is sending eventually ends, and loading is then
\* false, also when the server never answers or never finishes the body.
C33_SendingTerminates ==
    \A eid \in 1..MaxExec : Sending(eid) ~> (eid \notin InflightIds /\ ~loading)

\* C34: the list stored for an identity never holds more than maxRequests
\* timestamps; a getRemainingRequests that directly follows a refused
\* isAllowed for the same identity returns 0, and a getResetTime that directly
\* follows it returns a time later than the current time.
C34_DenialReportsTheWindow ==
    /\ [](\A id \in LimiterIds : Len(limiter.requests[id]) <= limiter.maxRequests)
    /\ [][(/\ lcall.op = "isAllowed"
           /\ lcall.ret = 0
           /\ lcall'.id = lcall.id
           /\ lcall'.at = lcall.at
           /\ lcall'.op \in {"getRemainingRequests", "getResetTime"}) =>
              IF lcall'.op = "getRemainingRequests"
              THEN lcall'.ret = 0
              ELSE lcall'.ret > now']_vars

\* getResetTime was asked, some time after the first grant, for an identity
\* that is being refused
C34_Witness ==
    /\ lcall.op = "getResetTime"
    /\ lcall.at = now
    /\ now > 0
    /\ ~isAllowed(limiter, lcall.id, now).ret
    /\ getRemainingRequests(limiter, lcall.id, now) = 0
    /\ lcall.ret > now
    /\ lcall.ret < now + limiter.windowMs

C36_LoadingWhileInFlight ==
    inflight # {} => loading

\* C37: once all executions have finished, each of them having issued its
\* network call, the outcome shown (the one written last) is that of the
\* execution that was started last.
C37_LatestStartedWins ==
    (inflight = {} /\ nexec > 0 /\ Len(fetchLog) = nexec) => lastDone.eid = nexec

(***************************************************************************)
(* The two users of useLocalStorage on the page: ApiTester, which saves,   *)
(* and RequestHistory, which lists, deletes and clears                     *)
(***************************************************************************)
\* what the page finds persisted when it is opened
SharedValues == { NoStorage, Envelope(STORAGE_VERSION, NewestFirst) }

InitShared ==
    /\ lastIndex = FreshPatterns
    /\ production = FALSE
    /\ IdleValidate
    /\ limiter = NewRateLimiter(LimMaxRequests, WindowMs)
    /\ now = HistEpoch
    /\ IdleLimiterLog
    /\ IdlePage
    /\ pcall = NoPCall
    /\ wire = NoWire
    /\ IdleDraft
    /\ IdleHook
    /\ storage \in SharedValues

\* the variables the hook instance of RequestHistory leaves alone
notPanelVars ==
    <<valVars, limVars, pageVars, pcall, wire, draftVars, requests, pendingSave,
      loaded, nextId, savedRun, historyError, importOutcome, cleared, threw>>

\* the mount effect of the instance of RequestHistory (localStorage works)
PanelLoad ==
    /\ ~panel.loaded
    /\ IF storage = NoStorage
       THEN /\ panel' = [panel EXCEPT !.loaded = TRUE]
            /\ UNCHANGED storage
       ELSE \E parsedData \in {ParsedData(storage)} :
            \E validRequests \in {LoadedList(parsedData.requests)} :
               IF parsedData.ok
               THEN /\ panel' = [panel EXCEPT !.loaded = TRUE,
                                              !.requests = validRequests]
                    /\ storage' = IF SavesBack(parsedData, validRequests)
                                  THEN Envelope(STORAGE_VERSION, JsonRequests(validRequests))
                                  ELSE storage
               ELSE /\ panel' = [panel EXCEPT !.loaded = TRUE]
                    /\ storage' = NoStorage
    /\ UNCHANGED notPanelVars

\* handleDeleteRequest(id): deleteRequest(id) of the instance of RequestHistory
PanelDelete(id) ==
    /\ panel.loaded
    /\ \E updated \in {SelectSeq(panel.requests, LAMBDA req : req.id # id)} :
          panel' = [panel EXCEPT !.requests = updated,
                                 !.pendingSave = saveToStorage(updated),
                                 !.deleted = @ \cup {id}]
    /\ UNCHANGED <<storage, notPanelVars>>

\* handleClearHistory: clearHistory() of the instance of RequestHistory
PanelClear ==
    /\ panel.loaded
    /\ panel' = [panel EXCEPT !.requests = <<>>, !.cleared = TRUE]
    /\ storage' = NoStorage
    /\ UNCHANGED notPanelVars

\* the timer of saveToStorage of the instance of RequestHistory fires
PanelFlush ==
    /\ panel.pendingSave.armed
    /\ panel.pendingSave.elapsed = SAVE_DEBOUNCE_MS
    /\ storage' = Envelope(STORAGE_VERSION, JsonRequests(panel.pendingSave.requests))
    /\ panel' = [panel EXCEPT !.pendingSave = NoPending]
    /\ UNCHANGED notPanelVars

NextShared ==
    \/ LoadRequests(TRUE, TRUE, TRUE)
    \/ PanelLoad
    \/ \E requestData \in HistRequests : saveRequest(requestData)
    \/ \E i \in 1..Len(panel.requests) : PanelDelete(panel.requests[i].id)
    \/ PanelClear
    \/ HistTick
    \/ FlushSave(TRUE)
    \/ PanelFlush

SpecShared == InitShared /\ [][NextShared]_vars

\* both instances have run their mount effect and no timer is running
Settled ==
    /\ loaded
    /\ panel.loaded
    /\ ~pendingSave.armed
    /\ ~panel.pendingSave.armed

\* C38: once both users of the store have settled, an entry that the
\* executor holds, that the panel did not delete and that was not cleared is
\* in the persisted store.
C38_NoLostUpdates ==
    (Settled /\ ~panel.cleared) =>
       \A i \in 1..Len(requests) :
          requests[i].id \notin panel.deleted =>
             \E j \in 1..Len(storage.requests) : storage.requests[j] = requests[i]

\* C39: every mutation is eventually persisted: the write that a mutation
\* has scheduled is never given up.  While localStorage works, the timer of
\* saveToStorage ends only by writing the list it holds, also when the owner
\* of the store unmounts.
C39_ScheduledWriteIsCarriedOut ==
    [][(pendingSave.armed /\ ~pendingSave'.armed) =>
          storage' = Envelope(STORAGE_VERSION, pendingSave.requests)]_vars

(***************************************************************************)
(* exportHistory and importHistory                                         *)
(***************************************************************************)
\* exportHistory(): JSON.stringify({version: STORAGE_VERSION, requests}, null, 2)
exportHistory == Envelope(STORAGE_VERSION, JsonRequests(requests))

\* the files imported here
ExportFiles ==
    { Envelope(STORAGE_VERSION, OldestFirst), Envelope(STORAGE_VERSION, Overflowing) }

\* the history with the text of exportHistory() handed back to importHistory
NextExport ==
    \/ LoadRequests(TRUE, TRUE, TRUE)
    \/ \E requestData \in HistRequests : saveRequest(requestData)
    \/ \E i \in 1..Len(requests) : deleteRequest(requests[i].id)
    \/ clearHistory(TRUE)
    \/ \E jsonData \in ExportFiles : importHistory(jsonData)
    \/ importHistory(exportHistory)
    \/ HistTick
    \/ FlushSave(TRUE)
    \/ Reload

SpecExport == InitHistory /\ [][NextExport]_vars

\* C40: exportHistory() is the envelope of the current version that holds
\* the list in memory, in order; importHistory(exportHistory()) leaves the
\* list in memory as it was and returns its length.
C40_ExportImportRoundTrip ==
    /\ [](exportHistory = Envelope(STORAGE_VERSION, requests))
    /\ [][importHistory(exportHistory) =>
             /\ ~importOutcome'.thrown
             /\ requests' = requests
             /\ importOutcome'.count = Len(requests)]_vars

====
